---- MODULE Spec2Model ----
(***************************************************************************)
(* The GSC ingestion service of src/services/ingestion/gsc.ts:             *)
(*   ingestGSCData            the day loop (orchestrator)                  *)
(*   fetchGSCDataForDate      paginated fetch with retry and backoff       *)
(*   normalizeRow             pure row normalisation (URL canonical form)  *)
(*   writeToFirestoreInBatches chunked batch persistence                   *)
(*                                                                         *)
(* The three async functions are one state machine (specification Spec):   *)
(* every await of the source is a control point, the reporting API and the *)
(* store are the environment and answer each request nondeterministically. *)
(* normalizeRow is a pure function and has its own specification           *)
(* (SpecNormalize), whose initial states draw the raw row.                 *)
(*                                                                         *)
(* Data abstraction.  A row carries no field the control flow reads, so a  *)
(* page of the API is one block [startRow, n]: the n rows of the day's     *)
(* result from offset startRow on, as the request asked for them.  allRows *)
(* is the sequence of the blocks pushed, and its length in rows is the sum *)
(* of the n.  A document of the persister is                               *)
(* identified by its index in `documents`, and a chunk by the half-open    *)
(* index interval slice(i, i + batchSize) selects.  A date text is a day   *)
(* number, a Date object is its time value in hours, and the time zone of  *)
(* the process is an input of the run.                                     *)
(***************************************************************************)
EXTENDS Integers, Sequences, FiniteSets, TLC

\* ---------------------------------------------------------------- constants of the program
rowLimit == 25000
maxRetries == 5
initialDelay == 1000
batchSize == 500
jitterCeiling == 1000

\* ---------------------------------------------------------------- bounds of the model
\* days 1..MaxDays can be named by startDate and endDate
MaxDays == 2
\* full pages (rowLimit rows) the API answers in one run
MaxFullPages == 1
\* page requests the API rejects in one call of the fetch made by ingestGSCData; a direct
\* call of the fetch can have any of its requests rejected
MaxRequestFailures == 6
\* only the first MaxFailChunk commits of one persister call can be rejected
MaxFailChunk == 2
\* records handed to a direct call of writeToFirestoreInBatches
MaxDocs == 1200
\* query parameters of a page URL
MaxParams == 3

\* sizes of the pages that are not full, next to the empty page
PartialSizes == {700}
\* values Math.random() * 1000 is sampled at
Jitter == {0, jitterCeiling - 1}
\* errors a batch commit can raise
CommitErrors == {"permission denied", "deadline exceeded"}

VARIABLES
    \* which exported function the run calls, and ingestGSCData's frame
    entry, siteUrl, startDate, endDate, ipc, dt, totalRowsWritten, result,
    \* the time zone the process runs in
    timeZone,
    \* the locals of the loop body: the rows fetched for the day and their records
    rawRows, normalizedRows,
    \* fetchGSCDataForDate's frame
    fpc, date, allRows, startRow, hasMore, attempt, delay, fetchError,
    \* the time the fetch has spent in setTimeout since its last successful request
    elapsed,
    \* writeToFirestoreInBatches' frame
    wpc, documents, i, chunk, writeError,
    \* the document references of the batch being built
    docRefs,
    \* the reporting API as the caller observes it (the mock's call list)
    queryCalls, responses, fullPages, requestFailures,
    \* the store as the caller observes it
    storeCalls, commits, storeDocs,
    \* the document identifiers the store holds, as intervals of one naming scheme
    storeIds,
    \* what each day of the run did, in processing order
    dayLog,
    \* normalizeRow: its argument and its result
    rawRow, normalized,
    \* the result of the normalizeRow of the second copy of the module
    normalizedCopy,
    \* two runs at once: the run that is executing, and the frame of the suspended one
    running, parked

ingestVars ==
    <<entry, siteUrl, startDate, endDate, ipc, dt, totalRowsWritten, result, timeZone,
      rawRows, normalizedRows>>
fetchVars == <<fpc, date, allRows, startRow, hasMore, attempt, delay, fetchError, elapsed>>
writeVars == <<wpc, documents, i, chunk, writeError, docRefs>>
apiVars == <<queryCalls, responses, fullPages, requestFailures>>
storeVars == <<storeCalls, commits, storeDocs, storeIds>>
normVars == <<rawRow, normalized, normalizedCopy>>
pairVars == <<running, parked>>
vars == <<ingestVars, fetchVars, writeVars, apiVars, storeVars, dayLog, normVars, pairVars>>

None == "none"
\* no row given, no record returned yet
NoRecord == [keys |-> "none"]

\* ---------------------------------------------------------------- helpers
RECURSIVE Pow2(_)
Pow2(n) == IF n = 0 THEN 1 ELSE 2 * Pow2(n - 1)

Min(a, b) == IF a <= b THEN a ELSE b

\* allRows.length: the rows of a sequence of blocks
RECURSIVE RowsLength(_)
RowsLength(rs) == IF rs = <<>> THEN 0 ELSE Head(rs).n + RowsLength(Tail(rs))

\* ================================================================ fetchGSCDataForDate

\* the locals at entry, and no request issued yet
FetchEnter(d) ==
    /\ date' = d
    /\ allRows' = <<>>
    /\ startRow' = 0
    /\ hasMore' = TRUE
    /\ attempt' = 0
    /\ delay' = 0
    /\ elapsed' = 0
    /\ fetchError' = None
    /\ fpc' = "while"
    /\ queryCalls' = <<>>
    /\ responses' = <<>>
    /\ requestFailures' = 0

\* the frame once its caller has taken the result
FetchLeave ==
    /\ date' = 0
    /\ allRows' = <<>>
    /\ startRow' = 0
    /\ hasMore' = FALSE
    /\ attempt' = 0
    /\ delay' = 0
    /\ elapsed' = 0
    /\ fetchError' = None
    /\ fpc' = "idle"
    /\ queryCalls' = <<>>
    /\ responses' = <<>>
    /\ requestFailures' = 0

\* the request body of one page request
Request(d, sr) == [startDate |-> d, endDate |-> d, rowLimit |-> rowLimit, startRow |-> sr]

\* mutant of PageIsFull: paging goes on after any page that holds rows
PageIsFull_AnyRows(n) == n > 0

\* mutant of PageIsFull: paging stops after every page
PageIsFull_Never(n) == FALSE

\* rows.length === rowLimit
PageIsFull(n) == n = rowLimit

\* mutant of MayRetry: a failed request is always retried
MayRetry_Always(a) == TRUE

\* mutant of MayRetry: a page is given up after its third failure
MayRetry_Twice(a) == a < 2

\* attempt < maxRetries
MayRetry(a) == a < maxRetries

\* mutant of BackoffDelay: the delay grows linearly with the attempt
BackoffDelay_Linear(a, jitter) == a * initialDelay + jitter

\* Math.pow(2, attempt) * initialDelay + Math.random() * 1000
BackoffDelay(a, jitter) == Pow2(a) * initialDelay + jitter

\* mutant of AttemptAfterSuccess: the counter keeps the failures of earlier pages
AttemptAfterSuccess_Kept(a) == a

\* attempt = 0, at the end of the try block
AttemptAfterSuccess(a) == 0

\* new Error(`Failed to fetch GSC data for ${date} after ${maxRetries} attempts.`)
FetchErrorOf(d) == [name |-> "Error", date |-> d, attempts |-> maxRetries]

\* while (hasMore): the next request is issued, or the rows are returned
fetch_While ==
    /\ fpc = "while"
    /\ IF hasMore
       THEN /\ queryCalls' = Append(queryCalls, Request(date, startRow))
            /\ fpc' = "await"
       ELSE /\ fpc' = "returned"
            /\ UNCHANGED queryCalls
    /\ UNCHANGED <<date, allRows, startRow, hasMore, attempt, delay, fetchError, elapsed>>
    /\ UNCHANGED <<responses, fullPages, requestFailures>>
    /\ UNCHANGED <<ingestVars, writeVars, storeVars, dayLog, normVars, pairVars>>

\* the rows a successful response holds: absent, empty, a partial page or a full one
PageAnswers ==
    {[present |-> FALSE, n |-> 0], [present |-> TRUE, n |-> 0]}
    \cup {[present |-> TRUE, n |-> k] : k \in PartialSizes}
    \cup (IF fullPages < MaxFullPages THEN {[present |-> TRUE, n |-> rowLimit]} ELSE {})

\* the query resolves: lines 139-150
fetch_Resolve ==
    /\ fpc = "await"
    /\ \E rows \in PageAnswers :
        /\ responses' = Append(responses, [ok |-> TRUE, present |-> rows.present, n |-> rows.n])
        /\ fullPages' = IF rows.n = rowLimit THEN fullPages + 1 ELSE fullPages
        /\ IF rows.present /\ rows.n > 0
           THEN /\ allRows' = Append(allRows, [startRow |-> queryCalls[Len(queryCalls)].startRow,
                                               n |-> rows.n])
                /\ startRow' = startRow + rows.n
                /\ hasMore' = PageIsFull(rows.n)
           ELSE /\ hasMore' = FALSE
                /\ UNCHANGED <<allRows, startRow>>
    /\ attempt' = AttemptAfterSuccess(attempt)
    /\ elapsed' = 0
    /\ fpc' = "while"
    /\ UNCHANGED <<date, delay, fetchError, queryCalls, requestFailures>>
    /\ UNCHANGED <<ingestVars, writeVars, storeVars, dayLog, normVars, pairVars>>

\* mutant of fetch_Reject: a retry starts the day again at offset 0
fetch_Reject_Rewind ==
    /\ fpc = "await"
    /\ entry = "fetchGSCDataForDate" \/ requestFailures < MaxRequestFailures
    /\ requestFailures' = requestFailures + 1
    /\ responses' = Append(responses, [ok |-> FALSE, present |-> FALSE, n |-> 0])
    /\ IF MayRetry(attempt)
       THEN /\ attempt' = attempt + 1
            /\ \E jitter \in Jitter : delay' = BackoffDelay(attempt + 1, jitter)
            /\ startRow' = 0
            /\ fpc' = "sleep"
            /\ UNCHANGED fetchError
       ELSE /\ fetchError' = FetchErrorOf(date)
            /\ fpc' = "thrown"
            /\ UNCHANGED <<attempt, delay, startRow>>
    /\ UNCHANGED <<date, allRows, hasMore, queryCalls, fullPages, elapsed>>
    /\ UNCHANGED <<ingestVars, writeVars, storeVars, dayLog, normVars, pairVars>>

\* the query rejects: lines 151-162
fetch_Reject ==
    /\ fpc = "await"
    /\ entry = "fetchGSCDataForDate" \/ requestFailures < MaxRequestFailures
    /\ requestFailures' = requestFailures + 1
    /\ responses' = Append(responses, [ok |-> FALSE, present |-> FALSE, n |-> 0])
    /\ IF MayRetry(attempt)
       THEN /\ attempt' = attempt + 1
            /\ \E jitter \in Jitter : delay' = BackoffDelay(attempt + 1, jitter)
            /\ fpc' = "sleep"
            /\ UNCHANGED fetchError
       ELSE /\ fetchError' = FetchErrorOf(date)
            /\ fpc' = "thrown"
            /\ UNCHANGED <<attempt, delay>>
    /\ UNCHANGED <<date, allRows, startRow, hasMore, queryCalls, fullPages, elapsed>>
    /\ UNCHANGED <<ingestVars, writeVars, storeVars, dayLog, normVars, pairVars>>

\* setTimeout(res, delay) fires, delay ms after it was set; the catch block and with it
\* the scope of delay end
fetch_Timeout ==
    /\ fpc = "sleep"
    /\ elapsed' = elapsed + delay
    /\ delay' = 0
    /\ fpc' = "while"
    /\ UNCHANGED <<date, allRows, startRow, hasMore, attempt, fetchError>>
    /\ UNCHANGED <<apiVars, ingestVars, writeVars, storeVars, dayLog, normVars, pairVars>>

\* ================================================================ writeToFirestoreInBatches

NoChunk == [from |-> 0, to |-> 0]
NoStoreCalls == [batch |-> 0, collection |-> 0, doc |-> 0, set |-> 0, commit |-> 0]
NoRefs == [ns |-> "none", lo |-> 0, hi |-> 0]

\* the locals at entry; documents is documents.length, a document is its index
WriteEnter(n) ==
    /\ documents' = n
    /\ i' = 0
    /\ chunk' = NoChunk
    /\ docRefs' = NoRefs
    /\ writeError' = None
    /\ wpc' = "for"
    /\ commits' = <<>>

\* the frame once its caller has taken the outcome
WriteLeave ==
    /\ documents' = 0
    /\ i' = 0
    /\ chunk' = NoChunk
    /\ docRefs' = NoRefs
    /\ writeError' = None
    /\ wpc' = "idle"
    /\ commits' = <<>>

\* documents.slice(from, to): the documents of index from .. Min(to, length) - 1
Slice(n, from, to) == [from |-> Min(from, n), to |-> Min(to, n)]

ChunkLength(c) == c.to - c.from

\* the documents the commits of a call have stored
RECURSIVE DocsCommitted(_)
DocsCommitted(cs) ==
    IF cs = <<>> THEN 0
    ELSE (IF Head(cs).error = None THEN Head(cs).to - Head(cs).from ELSE 0)
         + DocsCommitted(Tail(cs))

\* mutant of NextChunkStart: the first document after each chunk is skipped
NextChunkStart_SkipOne(k) == k + batchSize + 1

\* i += batchSize
NextChunkStart(k) == k + batchSize

\* db.batch(), then per document db.collection(path).doc() and batch.set(docRef, doc),
\* then batch.commit() is issued
StoreCallsForChunk(sc, c) ==
    [batch |-> sc.batch + 1,
     collection |-> sc.collection + ChunkLength(c),
     doc |-> sc.doc + ChunkLength(c),
     set |-> sc.set + ChunkLength(c),
     commit |-> sc.commit + 1]

\* mutant of MoreChunks: the loop also runs at i = documents.length
MoreChunks_Inclusive(k, n) == k <= n

\* i < documents.length
MoreChunks(k, n) == k < n

Max(a, b) == IF a >= b THEN a ELSE b

\* mutant of DocRefs: the key of a document is the position of its record (doc(String(k)))
DocRefs_ByPosition(sc, c) == [ns |-> "position", lo |-> c.from, hi |-> c.to]

\* db.collection(collectionPath).doc(), once per document of the chunk: the store
\* generates an identifier it has never given before, here the number of the doc() call
DocRefs(sc, c) == [ns |-> "auto", lo |-> sc.doc, hi |-> sc.doc + ChunkLength(c)]

\* the identifiers two intervals share
Overlap(r, t) ==
    IF r.ns = t.ns THEN Max(0, Min(r.hi, t.hi) - Max(r.lo, t.lo)) ELSE 0

\* the identifiers of r the store holds already
RECURSIVE Held(_, _)
Held(ids, r) ==
    IF ids = {} THEN 0
    ELSE LET t == CHOOSE t \in ids : TRUE
         IN  Overlap(r, t) + Held(ids \ {t}, r)

\* batch.set(docRef, doc) committed: a document is created at every identifier of r the
\* store does not hold, and replaced at every identifier it holds
NewDocuments(ids, r) == (r.hi - r.lo) - Held(ids, r)

\* the identifiers held after the commit, intervals that touch being joined
StoreAdd(ids, r) ==
    LET touching == {t \in ids : t.ns = r.ns /\ t.lo <= r.hi /\ r.lo <= t.hi}
        lo == CHOOSE x \in {t.lo : t \in touching} \cup {r.lo} :
                \A y \in {t.lo : t \in touching} \cup {r.lo} : x <= y
        hi == CHOOSE x \in {t.hi : t \in touching} \cup {r.hi} :
                \A y \in {t.hi : t \in touching} \cup {r.hi} : x >= y
    IN  (ids \ touching) \cup {[ns |-> r.ns, lo |-> lo, hi |-> hi]}

\* for (let i = 0; i < documents.length; ...): the next batch is built and its commit
\* issued, or the call returns
write_For ==
    /\ wpc = "for"
    /\ IF MoreChunks(i, documents)
       THEN /\ chunk' = Slice(documents, i, i + batchSize)
            /\ docRefs' = DocRefs(storeCalls, chunk')
            /\ storeCalls' = StoreCallsForChunk(storeCalls, chunk')
            /\ wpc' = "await"
       ELSE /\ wpc' = "returned"
            /\ UNCHANGED <<chunk, docRefs, storeCalls>>
    /\ UNCHANGED <<documents, i, writeError, commits, storeDocs, storeIds>>
    /\ UNCHANGED <<ingestVars, fetchVars, apiVars, dayLog, normVars, pairVars>>

\* batch.commit() resolves: the store holds the documents of the batch
write_CommitResolve ==
    /\ wpc = "await"
    /\ commits' = Append(commits, [from |-> chunk.from, to |-> chunk.to, error |-> None])
    /\ storeDocs' = storeDocs + NewDocuments(storeIds, docRefs)
    /\ storeIds' = StoreAdd(storeIds, docRefs)
    /\ i' = NextChunkStart(i)
    /\ wpc' = "for"
    /\ UNCHANGED <<documents, chunk, docRefs, writeError, storeCalls>>
    /\ UNCHANGED <<ingestVars, fetchVars, apiVars, dayLog, normVars, pairVars>>

\* mutant of Rethrow: the commit's error is replaced by one of the persister's own
Rethrow_Wrapped(e) == "WriteError"

\* the error the caller of the persister receives when the commit raised e
Rethrow(e) == e

\* mutant of write_CommitReject: the error is logged and the loop goes on
write_CommitReject_Continue ==
    /\ wpc = "await"
    /\ Len(commits) < MaxFailChunk
    /\ \E e \in CommitErrors :
        commits' = Append(commits, [from |-> chunk.from, to |-> chunk.to, error |-> e])
    /\ i' = NextChunkStart(i)
    /\ wpc' = "for"
    /\ UNCHANGED <<documents, chunk, docRefs, writeError, storeCalls, storeDocs, storeIds>>
    /\ UNCHANGED <<ingestVars, fetchVars, apiVars, dayLog, normVars, pairVars>>

\* batch.commit() rejects: nothing of the batch is stored, the error is rethrown
write_CommitReject ==
    /\ wpc = "await"
    /\ Len(commits) < MaxFailChunk
    /\ \E e \in CommitErrors :
        /\ commits' = Append(commits, [from |-> chunk.from, to |-> chunk.to, error |-> e])
        /\ writeError' = Rethrow(e)
    /\ wpc' = "thrown"
    /\ UNCHANGED <<documents, i, chunk, docRefs, storeCalls, storeDocs, storeIds>>
    /\ UNCHANGED <<ingestVars, fetchVars, apiVars, dayLog, normVars, pairVars>>

\* ================================================================ ingestGSCData

SiteUrls == {"", "sc-domain:example.com"}
\* a date argument: a day number, EmptyDate for the empty string, or NotADate for a text
\* that is no date
EmptyDate == 0
NotADate == 0 - 1
Dates == {NotADate} \cup (0 .. MaxDays)

\* mutant of InputMissing: only the absence of all three inputs is refused
InputMissing_All(site, from, to) == site = "" /\ from = EmptyDate /\ to = EmptyDate

\* !siteUrl || !startDate || !endDate
InputMissing(site, from, to) == site = "" \/ from = EmptyDate \/ to = EmptyDate

\* { success, totalRowsWritten }
IngestionResult(ok, total) == [success |-> ok, totalRowsWritten |-> total]

\* A Date is its time value in hours since 00:00 UTC of day 0.  A time zone is the
\* offset of local time from UTC before and from the instant `at` of its clock change.
HoursPerDay == 24

\* the time value of an Invalid Date
NaN == 0 - 1

\* new Date('YYYY-MM-DD'): a date-only text is 00:00 UTC of that day, a text that is no
\* date gives an Invalid Date
DateOf(day) == IF day = NotADate THEN NaN ELSE day * HoursPerDay

\* mutant of LessOrEqual: an Invalid Date compares as the earliest time
LessOrEqual_NaNFirst(a, b) == a <= b

\* a <= b on Date objects: false when either time value is NaN
LessOrEqual(a, b) == a # NaN /\ b # NaN /\ a <= b

\* dt.toISOString() raises a RangeError on an Invalid Date
RangeError == [name |-> "RangeError"]
ToISOStringRaises(t) == t = NaN

\* dt.toISOString().split('T')[0]: the UTC calendar day of the time value
IsoDate(t) == t \div HoursPerDay

UtcZone == [before |-> 0, after |-> 0, at |-> 0]
\* clocks are set back one hour on day 1 at 02:00 local time (UTC-4 to UTC-5)
FallBackZone == [before |-> 0 - 4, after |-> 0 - 5, at |-> DateOf(1) + 6]
\* clocks are set forward one hour on day 1 at 02:00 local time (UTC-5 to UTC-4)
SpringForwardZone == [before |-> 0 - 5, after |-> 0 - 4, at |-> DateOf(1) + 7]
TimeZones == {UtcZone, FallBackZone, SpringForwardZone}

\* LocalTime(t) of the language: the wall-clock time value of the instant t
LocalTime(zone, t) == t + (IF t < zone.at THEN zone.before ELSE zone.after)

\* UTC(t) of the language: the instant of a wall-clock time value; a repeated wall-clock
\* time is the earlier instant, a skipped one is read with the offset before the change
UTC(zone, local) ==
    IF local - zone.before < zone.at THEN local - zone.before
    ELSE IF local - zone.after >= zone.at THEN local - zone.after
    ELSE local - zone.before

\* dt.setDate(dt.getDate() + 1): the same wall-clock time on the next local calendar day
NextDay(t) == UTC(timeZone, LocalTime(timeZone, t) + HoursPerDay)

\* rawRows.map(row => normalizeRow(row, siteUrl, currentDate)).length
NormalizedLength(rows) == RowsLength(rows)

\* the records of the rows of one block: normalizeRow applied to each row of the block
NormalizeBlock(b, site, day) ==
    [startRow |-> b.startRow, n |-> b.n, siteUrl |-> site, date |-> day]

\* mutant of NormalizeAll: the records come out in reverse order
NormalizeAll_Reversed(rows, site, day) ==
    [k \in DOMAIN rows |-> NormalizeBlock(rows[Len(rows) + 1 - k], site, day)]

\* rawRows.map(row => normalizeRow(row, siteUrl, currentDate))
NormalizeAll(rows, site, day) == [k \in DOMAIN rows |-> NormalizeBlock(rows[k], site, day)]

\* rawRows.length > 0
ShouldPersist(n) == n > 0

\* mutant of FinalResult: success reports that no day failed
FinalResult_NoDayFailed(total) ==
    IngestionResult(\A k \in DOMAIN dayLog :
                        dayLog[k].fetch # "thrown" /\ dayLog[k].persist # "thrown", total)

\* return { success: true, totalRowsWritten }
FinalResult(total) == IngestionResult(TRUE, total)

\* mutant of AddWritten: the total is overwritten by the day's count
AddWritten_Overwrite(total, n) == n

\* totalRowsWritten += normalizedRows.length
AddWritten(total, n) == total + n

\* the entry of dayLog for the day being processed
SetLast(log, field, value) == [log EXCEPT ![Len(log)][field] = value]

\* lines 71-80: the inputs are validated and the loop variable is set
ingest_Validate ==
    /\ ipc = "start"
    /\ IF InputMissing(siteUrl, startDate, endDate)
       THEN /\ result' = IngestionResult(FALSE, 0)
            /\ ipc' = "done"
            /\ UNCHANGED dt
       ELSE /\ dt' = DateOf(startDate)
            /\ ipc' = "for"
            /\ UNCHANGED result
    /\ UNCHANGED <<entry, siteUrl, startDate, endDate, totalRowsWritten, timeZone>>
    /\ UNCHANGED <<rawRows, normalizedRows>>
    /\ UNCHANGED <<fetchVars, writeVars, apiVars, storeVars, dayLog, normVars, pairVars>>

\* lines 82-87: dt <= end; the fetch of the day dt names is called, or the result is
\* returned; line 83 is outside the try block, so an error of toISOString ends the run
ingest_For ==
    /\ ipc = "for"
    /\ IF LessOrEqual(dt, DateOf(endDate)) /\ ToISOStringRaises(dt)
       THEN /\ result' = RangeError
            /\ ipc' = "raised"
            /\ UNCHANGED <<fetchVars, queryCalls, responses, requestFailures, dayLog>>
       ELSE IF LessOrEqual(dt, DateOf(endDate))
       THEN /\ FetchEnter(IsoDate(dt))
            /\ dayLog' = Append(dayLog, [date |-> IsoDate(dt), fetch |-> "pending", rows |-> 0,
                                         persist |-> "none", docs |-> 0, discarded |-> 0,
                                         setsBefore |-> storeCalls.set])
            /\ ipc' = "fetch"
            /\ UNCHANGED result
       ELSE /\ result' = FinalResult(totalRowsWritten)
            /\ ipc' = "done"
            /\ UNCHANGED <<fetchVars, queryCalls, responses, requestFailures, dayLog>>
    /\ UNCHANGED <<entry, siteUrl, startDate, endDate, dt, totalRowsWritten, timeZone>>
    /\ UNCHANGED <<rawRows, normalizedRows>>
    /\ UNCHANGED <<fullPages, writeVars, storeVars, normVars, pairVars>>

\* mutant of ingest_Fetched: the persister is started and not awaited
ingest_Fetched_NotAwaited ==
    /\ ipc = "fetch"
    /\ fpc = "returned"
    /\ IF ShouldPersist(RowsLength(allRows))
       THEN /\ rawRows' = allRows
            /\ normalizedRows' = NormalizeAll(allRows, siteUrl, date)
            /\ WriteEnter(NormalizedLength(normalizedRows'))
            /\ dayLog' = SetLast(SetLast(SetLast(dayLog, "fetch", "returned"),
                                         "rows", RowsLength(allRows)), "persist", "pending")
       ELSE /\ dayLog' = SetLast(SetLast(dayLog, "fetch", "returned"),
                                 "rows", RowsLength(allRows))
            /\ UNCHANGED <<writeVars, commits, rawRows, normalizedRows>>
    /\ dt' = NextDay(dt)
    /\ ipc' = "for"
    /\ FetchLeave
    /\ UNCHANGED <<entry, siteUrl, startDate, endDate, totalRowsWritten, result, timeZone>>
    /\ UNCHANGED <<fullPages, storeCalls, storeDocs, storeIds, normVars, pairVars>>

\* lines 87-92: the fetch returned; a day with rows is normalized and handed to the
\* persister, a day without rows is over
ingest_Fetched ==
    /\ ipc = "fetch"
    /\ fpc = "returned"
    /\ IF ShouldPersist(RowsLength(allRows))
       THEN /\ rawRows' = allRows
            /\ normalizedRows' = NormalizeAll(allRows, siteUrl, date)
            /\ WriteEnter(NormalizedLength(normalizedRows'))
            /\ dayLog' = SetLast(SetLast(SetLast(dayLog, "fetch", "returned"),
                                         "rows", RowsLength(allRows)), "persist", "pending")
            /\ ipc' = "write"
            /\ UNCHANGED dt
       ELSE /\ dayLog' = SetLast(SetLast(dayLog, "fetch", "returned"),
                                 "rows", RowsLength(allRows))
            /\ dt' = NextDay(dt)
            /\ ipc' = "for"
            /\ UNCHANGED <<writeVars, commits, rawRows, normalizedRows>>
    /\ FetchLeave
    /\ UNCHANGED <<entry, siteUrl, startDate, endDate, totalRowsWritten, result, timeZone>>
    /\ UNCHANGED <<fullPages, storeCalls, storeDocs, storeIds, normVars, pairVars>>

\* lines 93-95: the persister returned; the day's records are counted
ingest_Written ==
    /\ ipc = "write"
    /\ wpc = "returned"
    /\ totalRowsWritten' = AddWritten(totalRowsWritten, documents)
    /\ dayLog' = SetLast(SetLast(dayLog, "persist", "returned"),
                         "docs", DocsCommitted(commits))
    /\ dt' = NextDay(dt)
    /\ ipc' = "for"
    /\ WriteLeave
    /\ rawRows' = <<>> /\ normalizedRows' = <<>>
    /\ UNCHANGED <<entry, siteUrl, startDate, endDate, result, timeZone>>
    /\ UNCHANGED <<fetchVars, apiVars, storeCalls, storeDocs, storeIds, normVars, pairVars>>

\* mutant of ingest_CatchFetch: the catch block ends the loop
ingest_CatchFetch_Break ==
    /\ ipc = "fetch"
    /\ fpc = "thrown"
    /\ dayLog' = [dayLog EXCEPT ![Len(dayLog)].fetch = "thrown"]
    /\ result' = [success |-> TRUE, totalRowsWritten |-> totalRowsWritten]
    /\ ipc' = "done"
    /\ FetchLeave
    /\ UNCHANGED <<entry, siteUrl, startDate, endDate, dt, totalRowsWritten, timeZone>>
    /\ UNCHANGED <<rawRows, normalizedRows>>
    /\ UNCHANGED <<fullPages, writeVars, storeVars, normVars, pairVars>>

\* mutant of ingest_CatchFetch: the pages fetched before the failure are persisted
ingest_CatchFetch_PersistPartial ==
    /\ ipc = "fetch"
    /\ fpc = "thrown"
    /\ IF ShouldPersist(RowsLength(allRows))
       THEN /\ rawRows' = allRows
            /\ normalizedRows' = NormalizeAll(allRows, siteUrl, date)
            /\ WriteEnter(NormalizedLength(normalizedRows'))
            /\ dayLog' = SetLast(SetLast(dayLog, "fetch", "thrown"), "persist", "pending")
            /\ ipc' = "write"
            /\ UNCHANGED dt
       ELSE /\ dayLog' = SetLast(dayLog, "fetch", "thrown")
            /\ dt' = NextDay(dt)
            /\ ipc' = "for"
            /\ UNCHANGED <<writeVars, commits, rawRows, normalizedRows>>
    /\ FetchLeave
    /\ UNCHANGED <<entry, siteUrl, startDate, endDate, totalRowsWritten, result, timeZone>>
    /\ UNCHANGED <<fullPages, storeCalls, storeDocs, storeIds, normVars, pairVars>>

\* lines 96-98: the fetch threw; the rows it had accumulated are lost with its frame and
\* the day is over
ingest_CatchFetch ==
    /\ ipc = "fetch"
    /\ fpc = "thrown"
    /\ dayLog' = SetLast(SetLast(dayLog, "fetch", "thrown"), "discarded", RowsLength(allRows))
    /\ dt' = NextDay(dt)
    /\ ipc' = "for"
    /\ FetchLeave
    /\ UNCHANGED <<entry, siteUrl, startDate, endDate, totalRowsWritten, result, timeZone>>
    /\ UNCHANGED <<rawRows, normalizedRows>>
    /\ UNCHANGED <<fullPages, writeVars, storeVars, normVars, pairVars>>

\* mutant of ingest_CatchWrite: the batches committed before the failure are counted
ingest_CatchWrite_CountCommitted ==
    /\ ipc = "write"
    /\ wpc = "thrown"
    /\ totalRowsWritten' = totalRowsWritten + DocsCommitted(commits)
    /\ dayLog' = SetLast(SetLast(dayLog, "persist", "thrown"),
                         "docs", DocsCommitted(commits))
    /\ dt' = NextDay(dt)
    /\ ipc' = "for"
    /\ WriteLeave
    /\ rawRows' = <<>> /\ normalizedRows' = <<>>
    /\ UNCHANGED <<entry, siteUrl, startDate, endDate, result, timeZone>>
    /\ UNCHANGED <<fetchVars, apiVars, storeCalls, storeDocs, storeIds, normVars, pairVars>>

\* mutant of ingest_CatchWrite: the error of the persister is thrown again
ingest_CatchWrite_Rethrow ==
    /\ ipc = "write"
    /\ wpc = "thrown"
    /\ dayLog' = SetLast(SetLast(dayLog, "persist", "thrown"),
                         "docs", DocsCommitted(commits))
    /\ result' = [name |-> writeError]
    /\ ipc' = "raised"
    /\ WriteLeave
    /\ rawRows' = <<>> /\ normalizedRows' = <<>>
    /\ UNCHANGED <<entry, siteUrl, startDate, endDate, dt, totalRowsWritten, timeZone>>
    /\ UNCHANGED <<fetchVars, apiVars, storeCalls, storeDocs, storeIds, normVars, pairVars>>

\* lines 96-98: the persister threw; the day is over
ingest_CatchWrite ==
    /\ ipc = "write"
    /\ wpc = "thrown"
    /\ dayLog' = SetLast(SetLast(dayLog, "persist", "thrown"),
                         "docs", DocsCommitted(commits))
    /\ dt' = NextDay(dt)
    /\ ipc' = "for"
    /\ WriteLeave
    /\ rawRows' = <<>> /\ normalizedRows' = <<>>
    /\ UNCHANGED <<entry, siteUrl, startDate, endDate, totalRowsWritten, result, timeZone>>
    /\ UNCHANGED <<fetchVars, apiVars, storeCalls, storeDocs, storeIds, normVars, pairVars>>

\* ================================================================ normalizeRow
\* A string is the sequence of its characters, so that case conversion, prefix tests and
\* URL parsing are computed on the text.

UpperLetters == <<"A", "B", "C", "D", "E", "F", "G", "H", "I", "J", "K", "L", "M", "N", "O", "P", "Q", "R", "S", "T", "U", "V", "W", "X", "Y", "Z">>
LowerLetters == <<"a", "b", "c", "d", "e", "f", "g", "h", "i", "j", "k", "l", "m", "n", "o", "p", "q", "r", "s", "t", "u", "v", "w", "x", "y", "z">>

LetterIndex(letters, c) ==
    IF \E k \in DOMAIN letters : letters[k] = c
    THEN CHOOSE k \in DOMAIN letters : letters[k] = c
    ELSE 0

\* String.prototype.toLowerCase
ToLowerCase(s) ==
    [k \in DOMAIN s |->
        IF LetterIndex(UpperLetters, s[k]) > 0
        THEN LowerLetters[LetterIndex(UpperLetters, s[k])] ELSE s[k]]

\* String.prototype.toUpperCase
ToUpperCase(s) ==
    [k \in DOMAIN s |->
        IF LetterIndex(LowerLetters, s[k]) > 0
        THEN UpperLetters[LetterIndex(LowerLetters, s[k])] ELSE s[k]]

\* String.prototype.startsWith
StartsWith(s, prefix) == Len(s) >= Len(prefix) /\ SubSeq(s, 1, Len(prefix)) = prefix

\* String.prototype.endsWith
EndsWith(s, suffix) ==
    Len(s) >= Len(suffix) /\ SubSeq(s, Len(s) - Len(suffix) + 1, Len(s)) = suffix

\* String.prototype.substring on positions from .. to, clamped to the text
Substring(s, from, to) ==
    SubSeq(s, IF from < 1 THEN 1 ELSE from, IF to > Len(s) THEN Len(s) ELSE to)

\* the first position >= from of s that holds a character of cs, or Len(s) + 1
RECURSIVE FirstOf(_, _, _)
FirstOf(s, cs, from) ==
    IF from > Len(s) THEN Len(s) + 1
    ELSE IF s[from] \in cs THEN from
    ELSE FirstOf(s, cs, from + 1)

\* the last position of s that holds c, or 0
RECURSIVE LastOf(_, _, _)
LastOf(s, c, upto) ==
    IF upto < 1 THEN 0
    ELSE IF s[upto] = c THEN upto
    ELSE LastOf(s, c, upto - 1)

\* the pieces of s between the occurrences of sep
RECURSIVE Split(_, _)
Split(s, sep) ==
    LET at == FirstOf(s, {sep}, 1)
    IN  IF at > Len(s) THEN <<s>>
        ELSE <<SubSeq(s, 1, at - 1)>> \o Split(SubSeq(s, at + 1, Len(s)), sep)

\* undefined, for a key of the row and for a measure; null, for a key
Absent == <<"undefined">>
Null == <<"null">>
AbsentNumber == -1

\* the strings that count as false: undefined, null and the empty string
Falsy(x) == x \in {Absent, Null, <<>>}

\* x || fallback, for strings
OrElse(x, fallback) == IF Falsy(x) THEN fallback ELSE x

\* mutant of OrZero: an absent measure is copied as it is
OrZero_Copied(x) == x

\* x || 0, for numbers
OrZero(x) == IF x = AbsentNumber THEN 0 ELSE x

\* the name=value pairs of a query string (application/x-www-form-urlencoded parsing)
RECURSIVE PairsOf(_)
PairsOf(pieces) ==
    IF pieces = <<>> THEN <<>>
    ELSE LET piece == Head(pieces)
             eq == FirstOf(piece, {"="}, 1)
         IN  (IF piece = <<>> THEN <<>>
              ELSE <<[name |-> SubSeq(piece, 1, eq - 1),
                      value |-> SubSeq(piece, eq + 1, Len(piece))]>>)
             \o PairsOf(Tail(pieces))

ParseQuery(query) == IF query = <<>> THEN <<>> ELSE PairsOf(Split(query, "&"))

\* the serialization of a list of pairs: name=value joined by &
RECURSIVE SerializeQuery(_)
SerializeQuery(list) ==
    IF list = <<>> THEN <<>>
    ELSE Head(list).name \o <<"=">> \o Head(list).value
         \o (IF Len(list) > 1 THEN <<"&">> ELSE <<>>) \o SerializeQuery(Tail(list))

IsLetters(s) ==
    \A k \in DOMAIN s :
        LetterIndex(UpperLetters, s[k]) > 0 \/ LetterIndex(LowerLetters, s[k]) > 0

ParseFailure == [ok |-> FALSE]

\* new URL(text), for texts of the shape scheme://[userinfo@]host[:port][path][?query][#fragment]
\* with a special scheme (http, https), and for texts that hold no "://" (a TypeError).
\* The scheme and the host are lower-cased, an empty path becomes "/", the query and the
\* fragment are split off; the characters drawn need no percent-encoding.
ParseURL(text) ==
    LET colon == FirstOf(text, {":"}, 1)
        scheme == Substring(text, 1, colon - 1)
        authStart == colon + 3
        authEnd == FirstOf(text, {"/", "?", "#"}, authStart)
        authority == Substring(text, authStart, authEnd - 1)
        at == LastOf(authority, "@", Len(authority))
        hostport == Substring(authority, at + 1, Len(authority))
        portAt == FirstOf(hostport, {":"}, 1)
        host == Substring(hostport, 1, portAt - 1)
        hashAt == FirstOf(text, {"#"}, authEnd)
        queryAt == FirstOf(Substring(text, 1, hashAt - 1), {"?"}, authEnd)
        path == Substring(text, authEnd, queryAt - 1)
        query == Substring(text, queryAt + 1, hashAt - 1)
    IN  IF \/ colon > Len(text)
           \/ scheme = <<>>
           \/ ~IsLetters(scheme)
           \/ Substring(text, colon + 1, colon + 2) # <<"/", "/">>
           \/ host = <<>>
           \/ \E k \in DOMAIN host : host[k] = " "
        THEN ParseFailure
        ELSE [ok |-> TRUE,
              protocol |-> ToLowerCase(scheme) \o <<":">>,
              userinfo |-> Substring(authority, 1, at - 1),
              hostname |-> ToLowerCase(host),
              port |-> Substring(hostport, portAt + 1, Len(hostport)),
              hash |-> Substring(text, hashAt, Len(text)),
              pathname |-> IF path = <<>> THEN <<"/">> ELSE path,
              search |-> IF query = <<>> THEN <<>> ELSE <<"?">> \o query,
              searchParams |-> ParseQuery(query)]

\* mutant of DeleteAll: the whole query is dropped
DeleteAll_Everything(list, name) == <<>>

\* URLSearchParams.delete(name): every pair of that name is removed
DeleteAll(list, name) == SelectSeq(list, LAMBDA p : p.name # name)

\* key.toLowerCase().startsWith('utm_')
IsUtm(key) == StartsWith(ToLowerCase(key), <<"u", "t", "m", "_">>)

\* url.searchParams.forEach((_, key) => { if (...) url.searchParams.delete(key) }):
\* forEach visits the pairs by position in the live list, so after a delete at position k
\* the pair that moved into position k is not visited
RECURSIVE ForEachDelete(_, _)
ForEachDelete(list, k) ==
    IF k > Len(list) THEN list
    ELSE IF IsUtm(list[k].name)
         THEN ForEachDelete(DeleteAll(list, list[k].name), k + 1)
         ELSE ForEachDelete(list, k + 1)

\* url.search after the loop: the text parsed when nothing was deleted, the
\* serialization of the list once a delete has rewritten it
SearchAfter(url, list) ==
    IF list = url.searchParams THEN url.search
    ELSE IF list = <<>> THEN <<>>
    ELSE <<"?">> \o SerializeQuery(list)

\* mutant of StripTrailingSlash: two trailing slashes are both removed
StripTrailingSlash_Twice(path) ==
    IF Len(path) > 2 /\ EndsWith(path, <<"/", "/">>) THEN SubSeq(path, 1, Len(path) - 2)
    ELSE IF Len(path) > 1 /\ EndsWith(path, <<"/">>) THEN SubSeq(path, 1, Len(path) - 1)
    ELSE path

\* path.length > 1 && path.endsWith('/') ? path.slice(0, -1) : path
StripTrailingSlash(path) ==
    IF Len(path) > 1 /\ EndsWith(path, <<"/">>) THEN SubSeq(path, 1, Len(path) - 1) ELSE path

INVALID_URL == <<"I", "N", "V", "A", "L", "I", "D", "_", "U", "R", "L">>

\* the TypeError new URL raises, as the value of an expression that did not complete
TypeError == <<"TypeError">>

\* mutant of CatchParseError: the error of new URL is not caught
CatchParseError_Uncaught(finalPage) == TypeError

\* catch (e) { normalizedUrl = finalPage || 'INVALID_URL' }
CatchParseError(finalPage) == OrElse(finalPage, INVALID_URL)

\* mutant of NormalizeUrl: the URL is put together from url.host, which holds the port
NormalizeUrl_WithPort(page) ==
    LET finalPage == OrElse(page, <<>>)
        url == ParseURL(finalPage)
    IN  IF url.ok
        THEN url.protocol \o <<"/", "/">> \o ToLowerCase(url.hostname)
             \o (IF url.port = <<>> THEN <<>> ELSE <<":">> \o url.port)
             \o StripTrailingSlash(url.pathname)
             \o SearchAfter(url, ForEachDelete(url.searchParams, 1))
        ELSE CatchParseError(finalPage)

\* lines 181-198: the canonical form of the page key
NormalizeUrl(page) ==
    LET finalPage == OrElse(page, <<>>)
        url == ParseURL(finalPage)
    IN  IF url.ok
        THEN url.protocol \o <<"/", "/">> \o ToLowerCase(url.hostname)
             \o StripTrailingSlash(url.pathname)
             \o SearchAfter(url, ForEachDelete(url.searchParams, 1))
        ELSE CatchParseError(finalPage)

\* rawRow.keys || [], read by position
KeyAt(row, k) ==
    IF row.keys = Absent \/ k > Len(row.keys) THEN Absent ELSE row.keys[k]

\* the call ended by an error instead of a return
Raised == [keys |-> "TypeError"]

\* lines 172-214: the record returned; an error no catch block took ends the call
normalizeRow(row, site, day) ==
    IF NormalizeUrl(KeyAt(row, 1)) = TypeError THEN Raised ELSE
    [siteUrl |-> site,
     normalizedUrl |-> NormalizeUrl(KeyAt(row, 1)),
     query |-> OrElse(KeyAt(row, 2), <<>>),
     date |-> day,
     impressions |-> OrZero(row.impressions),
     clicks |-> OrZero(row.clicks),
     position |-> OrZero(row.position),
     ctr |-> OrZero(row.ctr),
     device |-> OrElse(KeyAt(row, 3), <<"U", "N", "K", "N", "O", "W", "N">>),
     country |-> ToUpperCase(OrElse(KeyAt(row, 4), <<"z", "z", "z">>)),
     searchAppearance |-> OrElse(KeyAt(row, 5), <<"N", "O", "N", "E">>),
     ingestedAt |-> "serverTimestamp"]

\* ---------------------------------------------------------------- the second copy
\* src/unnamed/part_002 holds the module a second time; its normalizeRow gives the keys
\* their defaults in the destructuring pattern and builds the URL with the same statements.

\* [page = '', ...] = keys: the default of a destructuring pattern replaces undefined only
DefaultTo(x, default) == IF x = Absent THEN default ELSE x

\* country ? country.toUpperCase() : 'UNKNOWN'
UpperOrUnknown(country) ==
    IF Falsy(country) THEN <<"U", "N", "K", "N", "O", "W", "N">> ELSE ToUpperCase(country)

\* part_002, lines 320-368: the record the second copy returns
normalizeRowCopy(row, site, day) ==
    IF NormalizeUrl(DefaultTo(KeyAt(row, 1), <<>>)) = TypeError THEN Raised ELSE
    [siteUrl |-> site,
     normalizedUrl |-> NormalizeUrl(DefaultTo(KeyAt(row, 1), <<>>)),
     query |-> OrElse(DefaultTo(KeyAt(row, 2), <<>>), <<>>),
     date |-> day,
     impressions |-> OrZero(row.impressions),
     clicks |-> OrZero(row.clicks),
     position |-> OrZero(row.position),
     ctr |-> OrZero(row.ctr),
     device |-> DefaultTo(KeyAt(row, 3), <<"U", "N", "K", "N", "O", "W", "N">>),
     country |-> UpperOrUnknown(DefaultTo(KeyAt(row, 4), <<"U", "N", "K", "N", "O", "W", "N">>)),
     searchAppearance |-> DefaultTo(KeyAt(row, 5), <<"N", "O", "N", "E">>),
     ingestedAt |-> "serverTimestamp"]

\* ---------------------------------------------------------------- the rows drawn
Schemes == {<<"h", "t", "t", "p", "s">>, <<"H", "T", "T", "P", "S">>}
Authorities == {<<"a", ".", "i", "o">>, <<"W", "W", "W", ".", "a", ".", "i", "o">>}
Paths == {<<>>, <<"/">>, <<"/", "p">>, <<"/", "P", "/">>, <<"/", "a", "/", "/">>}
ParamPairs ==
    {[name |-> <<"u", "t", "m", "_", "s">>, value |-> <<"1">>],
     [name |-> <<"u", "t", "m", "_", "m">>, value |-> <<"2">>],
     [name |-> <<"U", "T", "M", "_", "c">>, value |-> <<"3">>],
     [name |-> <<"i", "d">>, value |-> <<"4">>],
     [name |-> <<"q">>, value |-> <<"5">>]}
Queries == UNION {[1 .. n -> ParamPairs] : n \in 0 .. MaxParams}

\* the text scheme://authority path [?query]
UrlText(scheme, authority, path, params) ==
    scheme \o <<":", "/", "/">> \o authority \o path
    \o (IF params = <<>> THEN <<>> ELSE <<"?">> \o SerializeQuery(params))

UrlPages ==
    {UrlText(sc, au, pa, qu) : sc \in Schemes, au \in Authorities, pa \in Paths, qu \in Queries}

\* page keys that are no URL: absent, empty, free text
OtherPages == {Absent, <<>>, <<"n", "o", "t", " ", "a", " ", "v", "a", "l", "i", "d", " ", "u", "r", "l">>}

RowWithPage(page) ==
    [keys |-> <<page, <<"s", "h", "o", "e", "s">>, <<"M", "O", "B", "I", "L", "E">>, <<"u", "s", "a">>, <<"s", "e", "a", "r", "c", "h">>>>,
     impressions |-> 100, clicks |-> 10, position |-> 1, ctr |-> 1]

\* rows with keys or measures missing
SparseRows ==
    {[keys |-> Absent, impressions |-> AbsentNumber, clicks |-> AbsentNumber,
      position |-> AbsentNumber, ctr |-> AbsentNumber],
     [keys |-> <<>>, impressions |-> 0, clicks |-> 0, position |-> 0, ctr |-> 0],
     [keys |-> <<<<"h", "t", "t", "p", "s", ":", "/", "/", "a", ".", "i", "o", "/", "p">>>>,
      impressions |-> 100, clicks |-> AbsentNumber, position |-> 1, ctr |-> AbsentNumber],
     [keys |-> <<<<"h", "t", "t", "p", "s", ":", "/", "/", "a", ".", "i", "o", "/", "p">>, <<"s", "h", "o", "e", "s">>, Absent, Absent, Absent>>,
      impressions |-> 100, clicks |-> 10, position |-> 1, ctr |-> 1],
     [keys |-> <<<<"h", "t", "t", "p", "s", ":", "/", "/", "a", ".", "i", "o", "/", "p">>, Null, Null, Null, Null>>,
      impressions |-> 100, clicks |-> 10, position |-> 1, ctr |-> 1],
     [keys |-> <<<<"h", "t", "t", "p", "s", ":", "/", "/", "a", ".", "i", "o", "/", "p">>, <<>>, <<>>, <<>>, <<>>>>,
      impressions |-> 100, clicks |-> 10, position |-> 1, ctr |-> 1],
     [keys |-> <<Null, <<"s", "h", "o", "e", "s">>, <<"M", "O", "B", "I", "L", "E">>, <<"u", "s", "a">>, <<"s", "e", "a", "r", "c", "h">>>>,
      impressions |-> 100, clicks |-> 10, position |-> 1, ctr |-> 1]}

\* the page of the test with utm_ parameters between others, and a page with a parameter
\* written without "="
MixedPage ==
    <<"h", "t", "t", "p", "s", ":", "/", "/", "a", ".", "i", "o", "/", "p", "?">>
    \o <<"i", "d", "=", "4", "&", "u", "t", "m", "_", "s", "=", "1", "&">>
    \o <<"q", "=", "5", "&", "u", "t", "m", "_", "m", "=", "2">>
BareParamPage ==
    <<"h", "t", "t", "p", "s", ":", "/", "/", "a", ".", "i", "o", "/", "p", "?">>
    \o <<"u", "t", "m", "_", "s", "=", "1", "&", "i", "d">>
TestPages == {MixedPage, BareParamPage}

\* pages with user-info, a port and a fragment around https://a.io/p?id=4
PlainText == <<"a", ".", "i", "o">>
UserInfoText == <<"u", ":", "p", "w", "@">>
PortText == <<":", "8", "0", "8", "0">>
FragmentTexts == {<<>>, <<"#", "t", "o", "p">>, <<"#", "x", "?", "y", "=", "1">>}
AuthorityPages ==
    {<<"h", "t", "t", "p", "s", ":", "/", "/">> \o ui \o PlainText \o po \o pa \o qu \o fr :
        ui \in {<<>>, UserInfoText}, po \in {<<>>, PortText},
        pa \in {<<>>, <<"/", "p">>}, qu \in {<<>>, <<"?", "i", "d", "=", "4">>},
        fr \in FragmentTexts}

RawRows ==
    {RowWithPage(p) : p \in UrlPages \cup OtherPages \cup TestPages \cup AuthorityPages}
    \cup SparseRows

\* normalizeRow(rawRow, siteUrl, date) is called and returns
normalize_Call ==
    /\ entry = "normalizeRow"
    /\ normalized = NoRecord
    /\ normalized' = normalizeRow(rawRow, siteUrl, date)
    /\ UNCHANGED <<rawRow, normalizedCopy>>
    /\ UNCHANGED <<ingestVars, fetchVars, writeVars, apiVars, storeVars, dayLog, pairVars>>

\* the normalizeRow of the second copy is called with the same arguments and returns
normalize_CallCopy ==
    /\ entry = "normalizeRow"
    /\ normalizedCopy = NoRecord
    /\ normalizedCopy' = normalizeRowCopy(rawRow, siteUrl, date)
    /\ UNCHANGED <<rawRow, normalized>>
    /\ UNCHANGED <<ingestVars, fetchVars, writeVars, apiVars, storeVars, dayLog, pairVars>>

\* ================================================================ the specification

IdleIngest ==
    /\ siteUrl = "" /\ startDate = EmptyDate /\ endDate = EmptyDate
    /\ ipc = "idle" /\ dt = 0 /\ totalRowsWritten = 0 /\ result = None /\ timeZone = UtcZone
    /\ rawRows = <<>> /\ normalizedRows = <<>>

IdleFetch ==
    /\ fpc = "idle" /\ date = 0 /\ allRows = <<>> /\ startRow = 0 /\ hasMore = FALSE
    /\ attempt = 0 /\ delay = 0 /\ fetchError = None /\ elapsed = 0

IdleWrite ==
    /\ wpc = "idle" /\ documents = 0 /\ i = 0 /\ chunk = NoChunk /\ writeError = None
    /\ docRefs = NoRefs

FreshWorld ==
    /\ queryCalls = <<>> /\ responses = <<>> /\ fullPages = 0 /\ requestFailures = 0
    /\ storeCalls = NoStoreCalls /\ commits = <<>> /\ storeDocs = 0 /\ storeIds = {}
    /\ dayLog = <<>>

IdleNormalize == rawRow = NoRecord /\ normalized = NoRecord /\ normalizedCopy = NoRecord

\* no other run is suspended
NoFrame == [ipc |-> "none"]
OneRun == running = 1 /\ parked = NoFrame

\* ingestGSCData(siteUrl, startDate, endDate) is called
InitIngest ==
    /\ entry = "ingestGSCData"
    /\ siteUrl \in SiteUrls /\ startDate \in Dates /\ endDate \in Dates
    /\ timeZone \in TimeZones
    /\ rawRows = <<>> /\ normalizedRows = <<>>
    /\ ipc = "start" /\ dt = 0 /\ totalRowsWritten = 0 /\ result = None
    /\ IdleFetch /\ IdleWrite

\* fetchGSCDataForDate(gscClient, siteUrl, date) is called, as its tests call it
InitFetch ==
    /\ entry = "fetchGSCDataForDate"
    /\ IdleIngest /\ IdleWrite
    /\ fpc = "while" /\ date = 1 /\ allRows = <<>> /\ startRow = 0 /\ hasMore = TRUE
    /\ attempt = 0 /\ delay = 0 /\ fetchError = None /\ elapsed = 0

\* writeToFirestoreInBatches(db, collectionPath, documents) is called, as its tests call it
InitWrite ==
    /\ entry = "writeToFirestoreInBatches"
    /\ IdleIngest /\ IdleFetch
    /\ wpc = "for" /\ documents \in 0 .. MaxDocs /\ i = 0 /\ chunk = NoChunk
    /\ docRefs = NoRefs
    /\ writeError = None

Init ==
    /\ FreshWorld
    /\ IdleNormalize
    /\ OneRun
    /\ InitIngest \/ InitFetch \/ InitWrite

Next ==
    \/ ingest_Validate
    \/ ingest_For
    \/ ingest_Fetched
    \/ ingest_Written
    \/ ingest_CatchFetch
    \/ ingest_CatchWrite
    \/ fetch_While
    \/ fetch_Resolve
    \/ fetch_Reject
    \/ fetch_Timeout
    \/ write_For
    \/ write_CommitResolve
    \/ write_CommitReject

Spec == Init /\ [][Next]_vars

\* ================================================================ claims: fetchGSCDataForDate

AllRejected(rs) == rs # <<>> /\ \A k \in DOMAIN rs : ~rs[k].ok

\* C1: when every page request of a day fails, the fetcher issues exactly maxRetries (5)
\* requests in total, then fails with an error naming the date and the budget of 5, and
\* issues no request after that.
C1_RetryExhaustionAfterMaxRetries ==
    AllRejected(responses) =>
        /\ Len(queryCalls) <= maxRetries
        /\ fpc = "thrown" =>
            /\ Len(queryCalls) = maxRetries
            /\ fetchError = [name |-> "Error", date |-> date, attempts |-> maxRetries]

\* the responses are N full pages followed by one page that is not full, none rejected
FullThenPartial(rs) ==
    /\ rs # <<>>
    /\ \A k \in DOMAIN rs : rs[k].ok
    /\ \A k \in 1 .. Len(rs) - 1 : rs[k].n = rowLimit
    /\ rs[Len(rs)].n < rowLimit

\* the blocks of the responses that hold rows, in request order, each block starting
\* where the blocks before it end
RECURSIVE BlocksOf(_, _)
BlocksOf(rs, k) ==
    IF k > Len(rs) THEN <<>>
    ELSE (IF rs[k].n > 0
          THEN <<[startRow |-> RowsLength(SubSeq(rs, 1, k - 1)), n |-> rs[k].n]>>
          ELSE <<>>) \o BlocksOf(rs, k + 1)

\* C2: for N >= 0 full pages followed by one page of fewer than rowLimit rows and no
\* failure, exactly N+1 requests are issued, with startRow 0, rowLimit, ..., N*rowLimit in
\* that order, and the rows returned are the concatenation of the pages in request order.
C2_Pagination ==
    FullThenPartial(responses) =>
        /\ Len(queryCalls) = Len(responses)
        /\ \A k \in DOMAIN queryCalls : queryCalls[k].startRow = (k - 1) * rowLimit
        /\ allRows = BlocksOf(responses, 1)
        /\ fpc \in {"while", "returned"}

C2_Witness ==
    /\ fpc = "returned"
    /\ FullThenPartial(responses)
    /\ Len(responses) = 2
    /\ responses[2].n > 0

\* ================================================================ claims: ingestGSCData

DayFailed(d) == d.fetch = "thrown" \/ d.persist = "thrown"

\* the days the loop of line 82 visits from the time value t on, when nothing stops it
RECURSIVE LoopDays(_)
LoopDays(t) ==
    IF LessOrEqual(t, DateOf(endDate)) THEN <<IsoDate(t)>> \o LoopDays(NextDay(t)) ELSE <<>>

Returned == entry = "ingestGSCData" /\ ipc = "done"

IsPrefix(s, t) == Len(s) <= Len(t) /\ SubSeq(t, 1, Len(s)) = s

\* C3: an error of the fetch or of the persist of one day never prevents the processing
\* of later days: the fetch of every day the loop visits in a run without failures is
\* started whichever earlier days failed, and a day that succeeds after a failed day has
\* all its rows persisted.
C3_DayFailureIsolated ==
    /\ (entry = "ingestGSCData" /\ ~InputMissing(siteUrl, startDate, endDate)) =>
        /\ IsPrefix([k \in DOMAIN dayLog |-> dayLog[k].date], LoopDays(DateOf(startDate)))
        /\ Returned => Len(dayLog) = Len(LoopDays(DateOf(startDate)))
    /\ \A k \in DOMAIN dayLog :
        dayLog[k].persist = "returned" => dayLog[k].docs = dayLog[k].rows

C3_Witness ==
    /\ Returned
    /\ Len(dayLog) = 2
    /\ DayFailed(dayLog[1])
    /\ dayLog[2].persist = "returned"
    /\ dayLog[2].docs > 0

\* the rows of the days whose fetch and whose persist completed without error
RECURSIVE RowsOfGoodDays(_)
RowsOfGoodDays(log) ==
    IF log = <<>> THEN 0
    ELSE (IF DayFailed(Head(log)) THEN 0 ELSE Head(log).rows) + RowsOfGoodDays(Tail(log))

\* C4: the totalRowsWritten returned is the sum, over the days of the range whose fetch
\* and persist both completed without error, of the rows fetched for the day; a day whose
\* fetch or persist failed contributes 0.
C4_TotalIsSumOfGoodDays ==
    (Returned /\ result.success) => result.totalRowsWritten = RowsOfGoodDays(dayLog)

C4_Witness ==
    /\ Returned
    /\ Len(dayLog) = 2
    /\ ~DayFailed(dayLog[1]) /\ dayLog[1].rows > 0
    /\ ~DayFailed(dayLog[2]) /\ dayLog[2].rows > 0
    /\ result.totalRowsWritten = dayLog[1].rows + dayLog[2].rows

\* C5: with all three inputs present, the result reports success = true once the day loop
\* has completed, for every pattern of per-day failures, also when every day failed.
C5_SuccessWhateverFailed ==
    (Returned /\ ~InputMissing(siteUrl, startDate, endDate)) => result.success = TRUE

C5_Witness ==
    /\ Returned
    /\ Len(dayLog) = 2
    /\ \A k \in DOMAIN dayLog : DayFailed(dayLog[k])
    /\ result.success

\* C6: if siteUrl, startDate or endDate is missing (empty), the result is
\* {success: false, totalRowsWritten: 0} and neither the reporting API nor the store is
\* called.
C6_MissingInputRefused ==
    (entry = "ingestGSCData" /\ (siteUrl = "" \/ startDate = EmptyDate \/ endDate = EmptyDate)) =>
        /\ ipc = "done" => result = [success |-> FALSE, totalRowsWritten |-> 0]
        /\ ipc \in {"start", "done"}
        /\ queryCalls = <<>> /\ responses = <<>>
        /\ storeCalls = NoStoreCalls /\ storeDocs = 0
        /\ fpc = "idle" /\ wpc = "idle"
        /\ dayLog = <<>>

C6_Witness ==
    /\ Returned
    /\ siteUrl # "" /\ startDate # EmptyDate /\ endDate = EmptyDate
    /\ result = [success |-> FALSE, totalRowsWritten |-> 0]

\* ================================================================ claims: writeToFirestoreInBatches

CeilDiv(a, b) == (a + b - 1) \div b

NoCommitFailed == \A k \in DOMAIN commits : commits[k].error = None

\* C7: with no commit failing, n records are written in exactly ceil(n/500) batches, each
\* committed once; every batch but the last holds exactly 500 records, the last holds
\* n - 500*(ceil(n/500)-1), none holds more than 500, and the batches in commit order
\* concatenate to the input.
C7_Batching ==
    /\ ChunkLength(chunk) <= 500
    /\ (wpc = "returned" /\ NoCommitFailed) =>
        LET n == documents
            B == CeilDiv(n, 500)
        IN  /\ Len(commits) = B
            /\ \A k \in 1 .. B :
                /\ commits[k].from = 500 * (k - 1)
                /\ commits[k].to = IF k < B THEN 500 * k ELSE n
                /\ commits[k].to - commits[k].from <= 500
            /\ entry = "writeToFirestoreInBatches" =>
                /\ storeCalls.batch = B /\ storeCalls.commit = B
                /\ storeCalls.doc = n /\ storeCalls.set = n
                /\ storeDocs = n

C7_Witness ==
    /\ entry = "writeToFirestoreInBatches"
    /\ wpc = "returned"
    /\ documents = 1200
    /\ Len(commits) = 3
    /\ commits[3].to - commits[3].from = 200

\* C8: the first batch commit that fails ends the call: no later chunk is built or
\* committed, the failed commit is not retried, and the caller receives the very error the
\* commit raised.
C8_FirstCommitFailureEndsCall ==
    \A k \in DOMAIN commits :
        commits[k].error # None =>
            /\ k = Len(commits)
            /\ wpc = "thrown"
            /\ writeError = commits[k].error
            /\ chunk = [from |-> commits[k].from, to |-> commits[k].to]
            /\ entry = "writeToFirestoreInBatches" =>
                storeCalls.batch = k /\ storeCalls.commit = k

C8_Witness ==
    /\ wpc = "thrown"
    /\ documents = 1200
    /\ Len(commits) = 2
    /\ commits[1].error = None
    /\ commits[2].error \in CommitErrors
    /\ storeDocs = 500

\* C9: writeToFirestoreInBatches called with zero records makes no store call at all (no
\* batch, no commit, no reference to the collection), and ingestGSCData never calls the
\* persister for a day whose fetch returned zero rows.
C9_NothingToWriteNoStoreCall ==
    /\ (entry = "writeToFirestoreInBatches" /\ documents = 0) =>
        /\ storeCalls = NoStoreCalls
        /\ commits = <<>>
        /\ storeDocs = 0
        /\ wpc \in {"for", "returned"}
    /\ \A k \in DOMAIN dayLog :
        (dayLog[k].fetch = "returned" /\ dayLog[k].rows = 0) => dayLog[k].persist = "none"
    /\ (entry = "ingestGSCData" /\ wpc # "idle") => documents > 0

C9_Witness ==
    /\ entry = "writeToFirestoreInBatches"
    /\ documents = 0
    /\ wpc = "returned"

\* normalizeRow(rawRow, siteUrl, date) is about to be called, as its tests call it
InitNormalize ==
    /\ entry = "normalizeRow"
    /\ siteUrl = "sc-domain:example.com" /\ startDate = EmptyDate /\ endDate = EmptyDate
    /\ ipc = "idle" /\ dt = 0 /\ totalRowsWritten = 0 /\ result = None /\ timeZone = UtcZone
    /\ rawRows = <<>> /\ normalizedRows = <<>>
    /\ fpc = "idle" /\ date = 1 /\ allRows = <<>> /\ startRow = 0 /\ hasMore = FALSE
    /\ attempt = 0 /\ delay = 0 /\ fetchError = None /\ elapsed = 0
    /\ IdleWrite
    /\ FreshWorld
    /\ OneRun
    /\ rawRow \in RawRows
    /\ normalized = NoRecord
    /\ normalizedCopy = NoRecord

\* the rows both copies of normalizeRow are called with: the rows with keys or measures
\* missing, and the pages that are no URL or that the tests name
RowsForCopies ==
    {RowWithPage(p) : p \in OtherPages \cup TestPages \cup AuthorityPages} \cup SparseRows

InitCopies ==
    /\ entry = "normalizeRow"
    /\ siteUrl = "sc-domain:example.com" /\ startDate = EmptyDate /\ endDate = EmptyDate
    /\ ipc = "idle" /\ dt = 0 /\ totalRowsWritten = 0 /\ result = None /\ timeZone = UtcZone
    /\ rawRows = <<>> /\ normalizedRows = <<>>
    /\ fpc = "idle" /\ date = 1 /\ allRows = <<>> /\ startRow = 0 /\ hasMore = FALSE
    /\ attempt = 0 /\ delay = 0 /\ fetchError = None /\ elapsed = 0
    /\ IdleWrite
    /\ FreshWorld
    /\ OneRun
    /\ rawRow \in RowsForCopies
    /\ normalized = NoRecord
    /\ normalizedCopy = NoRecord

NextCopies == normalize_Call \/ normalize_CallCopy

SpecCopies == InitCopies /\ [][NextCopies]_vars

NextNormalize == normalize_Call

SpecNormalize == InitNormalize /\ [][NextNormalize]_vars

\* ================================================================ claims: normalizeRow

PageOf(row) == IF row.keys = Absent \/ row.keys = <<>> THEN Absent ELSE row.keys[1]

Parsable(page) == page \notin {Absent, Null} /\ ParseURL(page).ok

\* the query parameters a URL text holds
ParamsOf(text) == ParseURL(text).searchParams

\* C10: for every parsable page URL and every sequence of query parameters (also several
\* utm_ parameters next to each other), the normalizedUrl holds no query parameter whose
\* name, compared case-insensitively, starts with utm_.
C10_NoUtmParameterLeft ==
    (normalized # NoRecord /\ Parsable(PageOf(rawRow))) =>
        /\ Parsable(normalized.normalizedUrl)
        /\ \A k \in DOMAIN ParamsOf(normalized.normalizedUrl) :
            ~StartsWith(ToLowerCase(ParamsOf(normalized.normalizedUrl)[k].name),
                        <<"u", "t", "m", "_">>)

\* the text of a URL before its query: scheme://host and the path
BeforeQuery(text) == Substring(text, 1, FirstOf(text, {"?"}, 1) - 1)

\* C11: for every parsable page URL the scheme, the host and the full path of the
\* normalizedUrl are lower-case; a path written /PAGE comes out as /page.
C11_SchemeHostPathLowerCase ==
    (normalized # NoRecord /\ Parsable(PageOf(rawRow))) =>
        BeforeQuery(normalized.normalizedUrl) = ToLowerCase(BeforeQuery(normalized.normalizedUrl))

\* scheme://host of a parsed URL
OriginOf(url) == url.protocol \o <<"/", "/">> \o url.hostname

\* C12: when the parsed path of the page URL is exactly "/", written or implied, the
\* normalizedUrl is scheme://host followed directly by the remaining query: no trailing
\* slash, no path segment.
C12_RootPathLeavesNoSlash ==
    (/\ normalized # NoRecord
     /\ Parsable(PageOf(rawRow))
     /\ ParseURL(PageOf(rawRow)).pathname = <<"/">>) =>
        LET origin == OriginOf(ParseURL(PageOf(rawRow)))
            out == normalized.normalizedUrl
        IN  /\ StartsWith(out, origin)
            /\ Len(out) > Len(origin) => out[Len(origin) + 1] = "?"

\* C13: when the page key cannot be parsed as a URL (empty, absent, or a text that is no
\* URL), the normalizedUrl is the literal INVALID_URL.
C13_UnparsablePageGivesSentinel ==
    (normalized # NoRecord /\ ~Parsable(PageOf(rawRow))) =>
        normalized.normalizedUrl = INVALID_URL

\* C14: the canonical form is a fixed point: normalizing the normalizedUrl of any page
\* gives that normalizedUrl again.
C14_NormalizeIdempotent ==
    normalized # NoRecord =>
        NormalizeUrl(normalized.normalizedUrl) = normalized.normalizedUrl

RecordFields ==
    {"siteUrl", "normalizedUrl", "query", "date", "impressions", "clicks", "position",
     "ctr", "device", "country", "searchAppearance", "ingestedAt"}

\* C15: normalizeRow is total: for every raw row, also one whose keys are absent, fewer
\* than five or unparsable and whose measures are absent, the call returns a record with
\* every field and raises no error.
C15_NormalizeRowTotal ==
    normalized # NoRecord =>
        /\ normalized # Raised
        /\ DOMAIN normalized = RecordFields

C15_Witness ==
    /\ normalized # NoRecord
    /\ rawRow.keys = Absent
    /\ rawRow.clicks = AbsentNumber
    /\ normalized.normalizedUrl = INVALID_URL

\* ================================================================ claims: paging and retry

\* the rejected responses at the end of rs: the consecutive failures of the page at hand
RECURSIVE TrailingFailures(_)
TrailingFailures(rs) ==
    IF rs = <<>> \/ rs[Len(rs)].ok THEN 0
    ELSE 1 + TrailingFailures(SubSeq(rs, 1, Len(rs) - 1))

\* the rejected responses of rs
RECURSIVE Failures(_)
Failures(rs) ==
    IF rs = <<>> THEN 0 ELSE (IF Head(rs).ok THEN 0 ELSE 1) + Failures(Tail(rs))

\* the response held exactly rowLimit rows
FullPage(r) == r.ok /\ r.present /\ r.n = rowLimit

\* C16: after a successful page the fetch goes on to a next request exactly when the page
\* held exactly rowLimit rows, and stops after the first successful page with fewer rows
\* or none; a first page with zero or absent rows gives an empty result after a single
\* request and no error.
C16_PagingContinuesOnFullPageOnly ==
    /\ \A k \in DOMAIN responses :
        responses[k].ok =>
            IF FullPage(responses[k])
            THEN \/ Len(queryCalls) > k
                 \/ k = Len(responses) /\ fpc = "while" /\ hasMore
            ELSE /\ Len(queryCalls) = k
                 /\ fpc \in {"while", "returned"}
                 /\ ~hasMore
                 /\ fetchError = None
    /\ (responses # <<>> /\ responses[1].ok /\ responses[1].n = 0) =>
        /\ Len(queryCalls) = 1
        /\ allRows = <<>>
        /\ fetchError = None

C16_Witness ==
    /\ fpc = "returned"
    /\ Len(responses) = 2
    /\ FullPage(responses[1])
    /\ responses[2].ok /\ ~responses[2].present
    /\ Len(queryCalls) = 2
    /\ RowsLength(allRows) = rowLimit

\* the consecutive failures right before response k
FailuresBefore(rs, k) == TrailingFailures(SubSeq(rs, 1, k - 1))

\* C17: when the request of a page fails f times in a row, f below the budget, and then
\* succeeds, exactly f+1 requests are issued for that page, all with the same startRow;
\* the rows of earlier pages are kept and the rows of the successful response are used
\* (2 failures then a success: 3 requests).
C17_RetrySamePageUntilSuccess ==
    /\ Len(queryCalls) \in {Len(responses), Len(responses) + 1}
    /\ fpc = "thrown" => TrailingFailures(responses) >= maxRetries
    /\ allRows = BlocksOf(responses, 1)
    /\ \A k \in DOMAIN responses :
        (responses[k].ok /\ FailuresBefore(responses, k) < maxRetries) =>
            LET f == FailuresBefore(responses, k)
            IN  /\ \A j \in (k - f) .. k : queryCalls[j].startRow = queryCalls[k].startRow
                /\ k - f > 1 => queryCalls[k - f - 1].startRow < queryCalls[k].startRow
                /\ k < Len(queryCalls) => queryCalls[k + 1].startRow > queryCalls[k].startRow

C17_Witness ==
    /\ fpc = "returned"
    /\ Len(responses) = 4 /\ Len(queryCalls) = 4
    /\ FullPage(responses[1])
    /\ ~responses[2].ok /\ ~responses[3].ok
    /\ responses[4].ok /\ responses[4].n \in PartialSizes
    /\ Len(allRows) = 2

\* C18: the attempt counter is 0 after every successful request, so it counts the
\* consecutive failures of the page at hand: the first failure after a success is followed
\* by the first-step delay whatever failed before, and a fetch fails only when one page
\* has used up the budget, so that a day can take more failures in total than the budget.
C18_RetryBudgetPerPage ==
    /\ fpc # "thrown" => attempt = TrailingFailures(responses)
    /\ (fpc = "sleep" /\ TrailingFailures(responses) = 1) =>
        /\ delay >= Pow2(1) * initialDelay
        /\ delay < Pow2(1) * initialDelay + jitterCeiling
    /\ fpc = "thrown" => TrailingFailures(responses) >= maxRetries

C18_Witness ==
    /\ fpc = "returned"
    /\ Failures(responses) > maxRetries
    /\ TrailingFailures(SubSeq(responses, 1, Len(responses) - 1)) = 1

\* 2^1 * initialDelay + ... + 2^n * initialDelay
RECURSIVE BackoffFloor(_)
BackoffFloor(n) == IF n = 0 THEN 0 ELSE Pow2(n) * initialDelay + BackoffFloor(n - 1)

\* C19: the delay d set after the n-th consecutive failure of a page request, when a retry
\* follows, satisfies 2^n * 1000 <= d < 2^n * 1000 + 1000; the request that follows is
\* issued only once the delay has elapsed, so that the time waited before the (n+1)-th
\* request of a page is at least 2^1 * 1000 + ... + 2^n * 1000 (6000 before the 3rd).
C19_BackoffDelayBounds ==
    LET n == TrailingFailures(responses)
    IN  /\ fpc = "sleep" =>
            /\ n >= 1
            /\ delay >= Pow2(n) * initialDelay
            /\ delay < Pow2(n) * initialDelay + jitterCeiling
            /\ Len(queryCalls) = Len(responses)
            /\ elapsed >= BackoffFloor(n - 1)
        /\ (fpc \in {"while", "await"} /\ n >= 1) =>
            /\ elapsed >= BackoffFloor(n)
            /\ elapsed < BackoffFloor(n) + n * jitterCeiling
        /\ (fpc = "await" /\ n = 2) => elapsed >= Pow2(1) * initialDelay + Pow2(2) * initialDelay

C19_Witness ==
    /\ fpc = "await"
    /\ TrailingFailures(responses) = 2
    /\ Len(queryCalls) = Len(responses) + 1
    /\ elapsed = Pow2(1) * initialDelay + Pow2(2) * initialDelay

\* ================================================================ claims: the day loop

\* the days startDate .. endDate in ascending order
RECURSIVE CalendarDays(_, _)
CalendarDays(from, to) == IF from > to THEN <<>> ELSE <<from>> \o CalendarDays(from + 1, to)

\* C20: for valid startDate <= endDate the run starts exactly one fetch for every
\* calendar day of [startDate, endDate], both ends included, in ascending date order, and
\* none for a day outside the range.
C20_OneFetchPerCalendarDay ==
    (/\ entry = "ingestGSCData"
     /\ ~InputMissing(siteUrl, startDate, endDate)
     /\ startDate # NotADate /\ endDate # NotADate
     /\ startDate <= endDate) =>
        /\ IsPrefix([k \in DOMAIN dayLog |-> dayLog[k].date], CalendarDays(startDate, endDate))
        /\ ipc = "done" =>
            [k \in DOMAIN dayLog |-> dayLog[k].date] = CalendarDays(startDate, endDate)

\* ================================================================ claims: the record

UNKNOWN == <<"U", "N", "K", "N", "O", "W", "N">>

\* C21: the country of the record is the upper-cased country key when the key is present,
\* and the literal UNKNOWN when the country key is absent.
C21_CountryUpperOrUnknown ==
    normalized # NoRecord =>
        IF Falsy(KeyAt(rawRow, 4))
        THEN normalized.country = UNKNOWN
        ELSE normalized.country = ToUpperCase(KeyAt(rawRow, 4))

\* the parameters of a list whose name does not start with utm_, whatever the case
NonUtm(list) ==
    SelectSeq(list, LAMBDA p : ~StartsWith(ToLowerCase(p.name), <<"u", "t", "m", "_">>))

\* C22: no query parameter whose name does not start with utm_ is removed, reordered or
\* changed: the non-utm parameters of the normalizedUrl are those of the page, in the
\* same relative order with the same values.
C22_OtherParametersKept ==
    (normalized # NoRecord /\ Parsable(PageOf(rawRow))) =>
        /\ Parsable(normalized.normalizedUrl)
        /\ NonUtm(ParamsOf(normalized.normalizedUrl)) = NonUtm(ParamsOf(PageOf(rawRow)))

C22_Witness ==
    /\ normalized # NoRecord
    /\ PageOf(rawRow) = MixedPage
    /\ ParamsOf(normalized.normalizedUrl) =
        <<[name |-> <<"i", "d">>, value |-> <<"4">>], [name |-> <<"q">>, value |-> <<"5">>]>>

\* the path of a URL text
PathOf(text) == ParseURL(text).pathname

\* C23: for a parsable page whose path is longer than "/", exactly one trailing "/" is
\* removed when the path ends with one (/page/ gives /page, /a// gives /a/), and a path
\* that does not end with "/" keeps its length.
C23_OneTrailingSlashRemoved ==
    (/\ normalized # NoRecord
     /\ Parsable(PageOf(rawRow))
     /\ Len(PathOf(PageOf(rawRow))) > 1) =>
        LET path == PathOf(PageOf(rawRow))
            out == PathOf(normalized.normalizedUrl)
        IN  IF EndsWith(path, <<"/">>)
            THEN ToLowerCase(out) = ToLowerCase(SubSeq(path, 1, Len(path) - 1))
            ELSE ToLowerCase(out) = ToLowerCase(path)

C23_Witness ==
    /\ normalized # NoRecord
    /\ Parsable(PageOf(rawRow))
    /\ PathOf(PageOf(rawRow)) = <<"/", "a", "/", "/">>
    /\ PathOf(normalized.normalizedUrl) = <<"/", "a", "/">>

\* ================================================================ claims: the store

\* the documents the finished days of the run have committed
RECURSIVE DocsOfDays(_)
DocsOfDays(log) == IF log = <<>> THEN 0 ELSE Head(log).docs + DocsOfDays(Tail(log))

\* C24: the persister asks the store for one fresh identifier per record and never names
\* a document itself, so every committed record is a new document whatever the store
\* holds: a call that returns has added exactly its n records, and persisting the same
\* day twice leaves the documents of both passes.
C24_FreshIdentifierPerRecord ==
    /\ storeCalls.doc = storeCalls.set
    /\ storeCalls.doc = storeCalls.collection
    /\ docRefs.ns \in {"none", "auto"}
    /\ \A t \in storeIds : t.ns = "auto"
    /\ storeDocs = DocsOfDays(dayLog) + DocsCommitted(commits)
    /\ wpc = "returned" => DocsCommitted(commits) = documents

C24_Witness ==
    /\ Returned
    /\ Len(dayLog) = 2
    /\ dayLog[1].date = dayLog[2].date
    /\ dayLog[1].persist = "returned" /\ dayLog[2].persist = "returned"
    /\ dayLog[1].rows = dayLog[2].rows
    /\ storeDocs = 2 * dayLog[1].rows

\* C25: the batches are committed strictly in input order, the commit of a chunk being
\* issued only after the commit of the chunk before it has succeeded; so in every state
\* the committed records of the call are a prefix of the input made of whole chunks: its
\* length is a multiple of batchSize, or the whole input.
C25_CommittedPrefixOfWholeChunks ==
    LET c == DocsCommitted(commits)
    IN  /\ \A k \in DOMAIN commits :
            /\ commits[k].from = batchSize * (k - 1)
            /\ commits[k].to = Min(batchSize * k, documents)
            /\ k < Len(commits) => commits[k].error = None
        /\ wpc = "await" =>
            /\ chunk.from = batchSize * Len(commits)
            /\ chunk.from = c
            /\ \A k \in DOMAIN commits : commits[k].error = None
        /\ wpc = "for" => i = batchSize * Len(commits) /\ c = Min(i, documents)
        /\ c <= documents
        /\ c % batchSize = 0 \/ c = documents

C25_Witness ==
    /\ entry = "writeToFirestoreInBatches"
    /\ wpc = "await"
    /\ documents = 1200
    /\ Len(commits) = 2
    /\ DocsCommitted(commits) = 2 * batchSize
    /\ chunk = [from |-> 1000, to |-> 1200]

\* the key at position k when the row holds one, the default otherwise
KeyOrDefault(row, k, default) ==
    IF KeyAt(row, k) \in {Absent, Null, <<>>} THEN default ELSE KeyAt(row, k)

\* the measure when the row holds it, 0 otherwise
MeasureOrZero(x) == IF x = AbsentNumber THEN 0 ELSE x

\* C26: every missing dimension or measure takes its default: query is the empty string,
\* device is UNKNOWN, searchAppearance is NONE, and impressions, clicks, position and ctr
\* are 0; the keys are read by position (page, query, device, country, searchAppearance),
\* and siteUrl and date are the arguments unchanged.
C26_FieldDefaults ==
    normalized # NoRecord =>
        /\ normalized.query = KeyOrDefault(rawRow, 2, <<>>)
        /\ normalized.device = KeyOrDefault(rawRow, 3, UNKNOWN)
        /\ normalized.searchAppearance = KeyOrDefault(rawRow, 5, <<"N", "O", "N", "E">>)
        /\ normalized.impressions = MeasureOrZero(rawRow.impressions)
        /\ normalized.clicks = MeasureOrZero(rawRow.clicks)
        /\ normalized.position = MeasureOrZero(rawRow.position)
        /\ normalized.ctr = MeasureOrZero(rawRow.ctr)
        /\ normalized.siteUrl = siteUrl
        /\ normalized.date = date

C26_Witness ==
    /\ normalized # NoRecord
    /\ rawRow.keys # Absent /\ Len(rawRow.keys) = 1
    /\ rawRow.clicks = AbsentNumber /\ rawRow.impressions = 100
    /\ normalized.query = <<>>
    /\ normalized.device = UNKNOWN
    /\ normalized.clicks = 0 /\ normalized.impressions = 100

\* ================================================================ claims: the day's pipeline

\* the blocks follow one another from offset 0 without gap or overlap
Contiguous(rows) ==
    \A k \in DOMAIN rows : rows[k].startRow = RowsLength(SubSeq(rows, 1, k - 1))

\* C27: for every day that is persisted, the persist starts only after the fetch of the
\* day has returned its last page, and the records handed to the persister are the
\* normalization of the fetched rows one for one, in the order the rows were fetched.
C27_PersistWhatWasFetchedInOrder ==
    (entry = "ingestGSCData" /\ wpc # "idle") =>
        /\ ipc = "write"
        /\ fpc = "idle" /\ queryCalls = <<>>
        /\ dayLog[Len(dayLog)].fetch = "returned"
        /\ RowsLength(rawRows) = dayLog[Len(dayLog)].rows
        /\ Contiguous(rawRows)
        /\ \A k \in 1 .. Len(rawRows) - 1 : rawRows[k].n = rowLimit
        /\ Len(normalizedRows) = Len(rawRows)
        /\ \A k \in DOMAIN rawRows :
            normalizedRows[k] = [startRow |-> rawRows[k].startRow, n |-> rawRows[k].n,
                                 siteUrl |-> siteUrl, date |-> dayLog[Len(dayLog)].date]
        /\ documents = RowsLength(rawRows)

C27_Witness ==
    /\ entry = "ingestGSCData"
    /\ wpc = "await"
    /\ Len(rawRows) = 2
    /\ rawRows[2].n \in PartialSizes
    /\ normalizedRows[2].startRow = rowLimit
    /\ documents = rowLimit + rawRows[2].n

\* the suspending operations that are outstanding: a page request, a backoff delay, a
\* batch commit
Outstanding ==
    (IF fpc = "await" THEN 1 ELSE 0) + (IF fpc = "sleep" THEN 1 ELSE 0)
    + (IF wpc = "await" THEN 1 ELSE 0)

\* C28: within one run at most one suspending operation (page request, backoff delay,
\* batch commit) is outstanding at any time, and every operation of a day has completed
\* or failed before the first page request of the next day is issued.
C28_OneOperationAtATime ==
    entry = "ingestGSCData" =>
        /\ Outstanding <= 1
        /\ Len(queryCalls) <= Len(responses) + 1
        /\ fpc = "idle" \/ wpc = "idle"
        /\ fpc # "idle" => ipc = "fetch" /\ dayLog[Len(dayLog)].fetch = "pending"
        /\ wpc # "idle" => ipc = "write" /\ dayLog[Len(dayLog)].persist = "pending"
        /\ \A k \in 1 .. Len(dayLog) - 1 :
            /\ dayLog[k].fetch \in {"returned", "thrown"}
            /\ dayLog[k].persist \in {"none", "returned", "thrown"}

C28_Witness ==
    /\ entry = "ingestGSCData"
    /\ Len(dayLog) = 2
    /\ dayLog[1].persist = "returned"
    /\ fpc = "await"
    /\ Len(queryCalls) = 1 /\ responses = <<>>

\* a day whose persist failed after at least one of its batches was committed
PartlyPersisted(d) == d.persist = "thrown" /\ d.docs > 0

\* C29: after a run, totalRowsWritten never exceeds the number of documents the run
\* committed to the store, and it is strictly smaller exactly when the persist of some day
\* failed after at least one of its batches had been committed: those batches stay in the
\* store while the day adds 0 to totalRowsWritten.
C29_TotalAtMostCommitted ==
    /\ entry = "ingestGSCData" => totalRowsWritten <= storeDocs
    /\ Returned =>
        /\ result.totalRowsWritten <= storeDocs
        /\ result.totalRowsWritten < storeDocs <=>
            \E k \in DOMAIN dayLog : PartlyPersisted(dayLog[k])
        /\ storeDocs - result.totalRowsWritten =
            DocsOfDays(SelectSeq(dayLog, PartlyPersisted))

C29_Witness ==
    /\ Returned
    /\ Len(dayLog) = 2
    /\ PartlyPersisted(dayLog[1]) /\ dayLog[1].docs = batchSize
    /\ dayLog[2].persist = "returned"
    /\ result.totalRowsWritten = dayLog[2].rows
    /\ storeDocs = batchSize + dayLog[2].rows

\* the batch.set calls made up to the end of day k of the log
SetsAfter(k) == IF k < Len(dayLog) THEN dayLog[k + 1].setsBefore ELSE storeCalls.set

\* C30: when the fetch of a day fails after one or more of its pages were fetched, the
\* rows of those pages are discarded: no record of the day is normalized or persisted and
\* no store call is made for the day.
C30_FailedFetchDiscardsRows ==
    /\ (entry = "ingestGSCData" /\ fpc = "thrown") =>
        /\ wpc = "idle"
        /\ rawRows = <<>> /\ normalizedRows = <<>>
        /\ storeCalls.set = dayLog[Len(dayLog)].setsBefore
    /\ \A k \in DOMAIN dayLog :
        dayLog[k].fetch = "thrown" =>
            /\ dayLog[k].rows = 0
            /\ dayLog[k].persist = "none"
            /\ dayLog[k].docs = 0
            /\ k < Len(dayLog) \/ ipc \in {"for", "done"}
            /\ SetsAfter(k) = dayLog[k].setsBefore

C30_Witness ==
    /\ Returned
    /\ Len(dayLog) = 1
    /\ dayLog[1].fetch = "thrown"
    /\ dayLog[1].discarded = rowLimit
    /\ storeCalls = NoStoreCalls
    /\ result = [success |-> TRUE, totalRowsWritten |-> 0]

\* ================================================================ claims: termination

\* one call of fetchGSCDataForDate whose every request is answered: the steps of the
\* function itself run to completion, a timer that was set fires, and the API resolves or
\* rejects every request it was sent, in any pattern
InitFetchCall == FreshWorld /\ IdleNormalize /\ OneRun /\ InitFetch

NextFetchCall == fetch_While \/ fetch_Resolve \/ fetch_Reject \/ fetch_Timeout

SpecFetchCall ==
    /\ InitFetchCall
    /\ [][NextFetchCall]_vars
    /\ WF_vars(fetch_While)
    /\ WF_vars(fetch_Timeout)
    /\ WF_vars(fetch_Resolve \/ fetch_Reject)

\* the requests issued for the offset sr
RequestsFor(sr) == Cardinality({k \in DOMAIN queryCalls : queryCalls[k].startRow = sr})

\* the full pages the API has answered
FullPagesAnswered == Cardinality({k \in DOMAIN responses : FullPage(responses[k])})

FetchEnded == fpc \in {"returned", "thrown"}

\* C31: a call of the fetch whose requests are all answered ends, by returning rows or
\* by failing, for every pattern of rejected requests, as long as the API answers finitely
\* many full pages: the requests for one offset are bounded through the retry budget (the
\* first request and maxRetries retries), and only a full page leads to a new offset.
C31_FetchTerminates ==
    /\ [](\A k \in DOMAIN queryCalls : RequestsFor(queryCalls[k].startRow) <= 1 + maxRetries)
    /\ [](Cardinality({queryCalls[k].startRow : k \in DOMAIN queryCalls})
            <= FullPagesAnswered + 1)
    /\ [](Len(queryCalls) <= (FullPagesAnswered + 1) * (1 + maxRetries))
    /\ <>FetchEnded

C31_Witness ==
    /\ fpc = "returned"
    /\ FullPagesAnswered = 1
    /\ RequestsFor(0) = 1 + maxRetries
    /\ RequestsFor(rowLimit) = 1 + maxRetries
    /\ Failures(responses) = 2 * maxRetries

\* ================================================================ claims: the offset

\* the rows of the responses that resolved
RECURSIVE RowsAnswered(_)
RowsAnswered(rs) ==
    IF rs = <<>> THEN 0
    ELSE (IF Head(rs).ok /\ Head(rs).present THEN Head(rs).n ELSE 0) + RowsAnswered(Tail(rs))

\* C32: in every state of the fetch, startRow is the number of rows accumulated, the sum
\* of the sizes of the pages that were returned; a rejected request changes neither, so the
\* retry asks for the offset the rejected request asked for.
C32_StartRowIsRowsAccumulated ==
    /\ startRow = RowsLength(allRows)
    /\ fpc # "idle" => startRow = RowsAnswered(responses)
    /\ fpc = "await" => queryCalls[Len(queryCalls)].startRow = startRow
    /\ \A k \in DOMAIN responses :
        /\ queryCalls[k].startRow = RowsAnswered(SubSeq(responses, 1, k - 1))
        /\ (~responses[k].ok /\ k < Len(queryCalls)) =>
            queryCalls[k + 1].startRow = queryCalls[k].startRow

C32_Witness ==
    /\ fpc = "await"
    /\ Len(responses) = 3 /\ Len(queryCalls) = 4
    /\ FullPage(responses[1])
    /\ ~responses[2].ok /\ ~responses[3].ok
    /\ startRow = rowLimit
    /\ allRows = <<[startRow |-> 0, n |-> rowLimit]>>
    /\ queryCalls[4].startRow = rowLimit

\* ================================================================ claims: errors of a run

\* the values ingestGSCData can return
IsIngestionResult(r) ==
    /\ DOMAIN r = {"success", "totalRowsWritten"}
    /\ r.success \in BOOLEAN
    /\ r.totalRowsWritten \in Nat

\* C33: ingestGSCData never raises to its caller: for every input, also a date text that
\* is no date, and every pattern of fetch and commit failures, the run ends only by
\* returning an IngestionResult; the error of a fetch or of a persist is taken by the catch
\* block of its day and the loop goes on with the next day.
C33_IngestNeverRaises ==
    entry = "ingestGSCData" =>
        /\ ipc # "raised"
        /\ ipc = "done" => IsIngestionResult(result)
        /\ ipc # "done" => result = None
        /\ fpc = "thrown" => ipc = "fetch" /\ ENABLED ingest_CatchFetch
        /\ wpc = "thrown" => ipc = "write" /\ ENABLED ingest_CatchWrite
        /\ ipc \in {"for", "done"} =>
            /\ fpc = "idle" /\ wpc = "idle"
            /\ fetchError = None /\ writeError = None
        /\ \A k \in DOMAIN dayLog :
            DayFailed(dayLog[k]) => k < Len(dayLog) \/ ipc \in {"for", "done"}
        /\ ipc = "done" /\ ~InputMissing(siteUrl, startDate, endDate) =>
            Len(dayLog) = Len(LoopDays(DateOf(startDate)))

C33_Witness ==
    /\ Returned
    /\ Len(dayLog) = 2
    /\ dayLog[1].fetch = "thrown"
    /\ dayLog[2].persist = "thrown"
    /\ result = [success |-> TRUE, totalRowsWritten |-> 0]

C33_WitnessNotADate ==
    /\ Returned
    /\ startDate = NotADate /\ endDate = 1
    /\ dayLog = <<>>
    /\ result = [success |-> TRUE, totalRowsWritten |-> 0]

\* ================================================================ claims: two runs at once

\* The process runs one thread: a run executes until it suspends at an await, and then the
\* event loop may resume the other run.  The frame of a run holds what its three functions
\* declare with let and const and receive as parameters, and the calls and answers the
\* run has seen; the store and its identifier counter are the one object both runs use.
Frame ==
    [siteUrl |-> siteUrl, startDate |-> startDate, endDate |-> endDate, ipc |-> ipc,
     dt |-> dt, totalRowsWritten |-> totalRowsWritten, result |-> result,
     rawRows |-> rawRows, normalizedRows |-> normalizedRows, fpc |-> fpc, date |-> date,
     allRows |-> allRows, startRow |-> startRow, hasMore |-> hasMore, attempt |-> attempt,
     delay |-> delay, fetchError |-> fetchError, elapsed |-> elapsed, wpc |-> wpc,
     documents |-> documents, i |-> i, chunk |-> chunk, writeError |-> writeError,
     docRefs |-> docRefs, queryCalls |-> queryCalls, responses |-> responses,
     requestFailures |-> requestFailures, commits |-> commits, dayLog |-> dayLog]

\* the run is at an await: a page request, a backoff delay or a batch commit is
\* outstanding, or a called function has settled and its caller is to be resumed
Suspended ==
    \/ fpc \in {"await", "sleep", "returned", "thrown"}
    \/ wpc \in {"await", "returned", "thrown"}

\* mutant of pair_Resume: totalRowsWritten is one counter of the module, not of the run
pair_Resume_SharedTotal ==
    /\ parked # NoFrame
    /\ Suspended \/ ipc = "done"
    /\ parked.ipc # "done"
    /\ siteUrl' = parked.siteUrl
    /\ startDate' = parked.startDate
    /\ endDate' = parked.endDate
    /\ ipc' = parked.ipc
    /\ dt' = parked.dt
    /\ result' = parked.result
    /\ rawRows' = parked.rawRows
    /\ normalizedRows' = parked.normalizedRows
    /\ fpc' = parked.fpc
    /\ date' = parked.date
    /\ allRows' = parked.allRows
    /\ startRow' = parked.startRow
    /\ hasMore' = parked.hasMore
    /\ attempt' = parked.attempt
    /\ delay' = parked.delay
    /\ fetchError' = parked.fetchError
    /\ elapsed' = parked.elapsed
    /\ wpc' = parked.wpc
    /\ documents' = parked.documents
    /\ i' = parked.i
    /\ chunk' = parked.chunk
    /\ writeError' = parked.writeError
    /\ docRefs' = parked.docRefs
    /\ queryCalls' = parked.queryCalls
    /\ responses' = parked.responses
    /\ requestFailures' = parked.requestFailures
    /\ commits' = parked.commits
    /\ dayLog' = parked.dayLog
    /\ parked' = Frame
    /\ running' = 3 - running
    /\ UNCHANGED <<entry, timeZone, totalRowsWritten, fullPages, storeVars, normVars>>

\* the running run is suspended or has returned, and the event loop resumes the other run
pair_Resume ==
    /\ parked # NoFrame
    /\ Suspended \/ ipc = "done"
    /\ parked.ipc # "done"
    /\ siteUrl' = parked.siteUrl
    /\ startDate' = parked.startDate
    /\ endDate' = parked.endDate
    /\ ipc' = parked.ipc
    /\ dt' = parked.dt
    /\ totalRowsWritten' = parked.totalRowsWritten
    /\ result' = parked.result
    /\ rawRows' = parked.rawRows
    /\ normalizedRows' = parked.normalizedRows
    /\ fpc' = parked.fpc
    /\ date' = parked.date
    /\ allRows' = parked.allRows
    /\ startRow' = parked.startRow
    /\ hasMore' = parked.hasMore
    /\ attempt' = parked.attempt
    /\ delay' = parked.delay
    /\ fetchError' = parked.fetchError
    /\ elapsed' = parked.elapsed
    /\ wpc' = parked.wpc
    /\ documents' = parked.documents
    /\ i' = parked.i
    /\ chunk' = parked.chunk
    /\ writeError' = parked.writeError
    /\ docRefs' = parked.docRefs
    /\ queryCalls' = parked.queryCalls
    /\ responses' = parked.responses
    /\ requestFailures' = parked.requestFailures
    /\ commits' = parked.commits
    /\ dayLog' = parked.dayLog
    /\ parked' = Frame
    /\ running' = 3 - running
    /\ UNCHANGED <<entry, timeZone, fullPages, storeVars, normVars>>

\* the frame of a run that has been called and has not executed a step yet
CalledFrame(site, from, to) ==
    [siteUrl |-> site, startDate |-> from, endDate |-> to, ipc |-> "start", dt |-> 0,
     totalRowsWritten |-> 0, result |-> None, rawRows |-> <<>>, normalizedRows |-> <<>>,
     fpc |-> "idle", date |-> 0, allRows |-> <<>>, startRow |-> 0, hasMore |-> FALSE,
     attempt |-> 0, delay |-> 0, fetchError |-> None, elapsed |-> 0,
     wpc |-> "idle", documents |-> 0, i |-> 0, chunk |-> NoChunk, writeError |-> None,
     docRefs |-> NoRefs, queryCalls |-> <<>>, responses |-> <<>>, requestFailures |-> 0,
     commits |-> <<>>, dayLog |-> <<>>]

\* two calls of ingestGSCData for the same site and the same day, of at most one partial
\* page, in the UTC zone
InitPair ==
    /\ entry = "ingestGSCData"
    /\ siteUrl = "sc-domain:example.com" /\ startDate = 1 /\ endDate = 1
    /\ ipc = "start" /\ dt = 0 /\ totalRowsWritten = 0 /\ result = None
    /\ rawRows = <<>> /\ normalizedRows = <<>>
    /\ IdleFetch /\ IdleWrite
    /\ queryCalls = <<>> /\ responses = <<>> /\ requestFailures = 0
    /\ commits = <<>> /\ dayLog = <<>>
    /\ parked = CalledFrame(siteUrl, startDate, endDate)
    /\ running = 1
    /\ timeZone = UtcZone
    /\ fullPages = MaxFullPages
    /\ storeCalls = NoStoreCalls /\ storeDocs = 0 /\ storeIds = {}
    /\ IdleNormalize

NextPair == Next \/ pair_Resume

SpecPair == InitPair /\ [][NextPair]_vars

\* the frame of run r
FrameOf(r) == IF running = r THEN Frame ELSE parked

\* the documents the commits in flight of a run have stored
InFlight(f) == DocsCommitted(f.commits)

\* what a run alone computes from the answers it received: the state of the frame agrees
\* with the log of its own requests, commits and days
RunAlone(f) ==
    /\ f.startRow = RowsLength(f.allRows)
    /\ f.fpc # "idle" => f.startRow = RowsAnswered(f.responses)
    /\ f.attempt <= maxRetries
    /\ f.fpc \notin {"idle", "thrown"} => f.attempt = TrailingFailures(f.responses)
    /\ f.wpc # "idle" =>
        /\ f.documents = f.dayLog[Len(f.dayLog)].rows
        /\ f.documents = RowsLength(f.rawRows)
        /\ \A k \in DOMAIN f.commits :
            /\ f.commits[k].from = batchSize * (k - 1)
            /\ f.commits[k].to = Min(batchSize * k, f.documents)
    /\ f.wpc = "await" =>
        /\ f.chunk = Slice(f.documents, f.i, f.i + batchSize)
        /\ f.docRefs.hi - f.docRefs.lo = ChunkLength(f.chunk)
    /\ f.totalRowsWritten =
        RowsOfGoodDays(SelectSeq(f.dayLog, LAMBDA d : d.persist = "returned"))
    /\ f.ipc = "done" => f.result = IngestionResult(TRUE, RowsOfGoodDays(f.dayLog))

C35_CopiesEquivalent ==
    (normalized # NoRecord /\ normalizedCopy # NoRecord) => normalized = normalizedCopy

\* ================================================================ claims: the authority

\* the page without user-info, port and fragment: what is left is the scheme, the host
\* name, the path and the query as they were written
Bare(text) ==
    LET url == ParseURL(text)
    IN  url.protocol \o <<"/", "/">> \o url.hostname \o url.pathname \o url.search

Holds(text, c) == \E k \in DOMAIN text : text[k] = c

\* C36: the normalizedUrl of a parsable page is put together from the scheme, the host
\* name, the path and the remaining query only: it holds no user-info, no port and no
\* fragment, so pages that differ only in these get the same normalizedUrl.
C36_PortUserInfoFragmentDropped ==
    (normalized # NoRecord /\ Parsable(PageOf(rawRow))) =>
        LET page == PageOf(rawRow)
            out == normalized.normalizedUrl
            parsed == ParseURL(out)
        IN  /\ out = NormalizeUrl(Bare(page))
            /\ ~Holds(out, "@")
            /\ ~Holds(out, "#")
            /\ parsed.ok
            /\ FirstOf(out, {":"}, Len(parsed.protocol) + 1) > Len(out)
            /\ parsed.userinfo = <<>>
            /\ parsed.port = <<>>
            /\ parsed.hash = <<>>

C36_Witness ==
    /\ normalized # NoRecord
    /\ PageOf(rawRow) = <<"h", "t", "t", "p", "s", ":", "/", "/">> \o UserInfoText \o PlainText
                        \o PortText \o <<"/", "p", "?", "i", "d", "=", "4", "#", "t", "o", "p">>
    /\ ParseURL(PageOf(rawRow)).port = <<"8", "0", "8", "0">>
    /\ ParseURL(PageOf(rawRow)).userinfo = <<"u", ":", "p", "w">>
    /\ ParseURL(PageOf(rawRow)).hash = <<"#", "t", "o", "p">>
    /\ normalized.normalizedUrl =
        <<"h", "t", "t", "p", "s", ":", "/", "/", "a", ".", "i", "o", "/", "p", "?", "i", "d", "=", "4">>

====
